---- MODULE Spec2Model ----
(***************************************************************************)
(* The network synchronisation engine of hydra-bot: the session state      *)
(* machine and the tic window engine of src/net/client.rs (struct Client), *)
(* the packet decoding of src/net/packet.rs it relies on, and the host     *)
(* loop of src/main.rs that drives it.                                     *)
(*                                                                         *)
(* Time is a clock `now` in milliseconds.  Integer arithmetic keeps the    *)
(* width of the Rust types: an overflowing +, - on u32/i32 panics when the *)
(* build has overflow checks (the dev profile) and wraps when it has not   *)
(* (the release profile); `overflow_checks` is the build's choice.         *)
(***************************************************************************)
EXTENDS Integers, Sequences, FiniteSets, TLC

VARIABLES
    client,           \* the fields of struct Client (client.rs 26-63)
    now,              \* the monotonic clock read by Instant::now(), ms
    pc,               \* position of the host inside Client::run / connect
    overflow_checks,  \* build profile: TRUE = arithmetic overflow panics
    panicked,         \* "" while the process runs, else the panic site
    out,              \* datagrams handed to send_packet by the last step
    delivered,        \* tics handed to receive_tic since the windows were reset
    ev,               \* the last step: the operation, the type of the datagram it handled
    maketic,          \* Game::maketic, the next local tic to build (game.rs 18)
    game,             \* the other fields of struct Game, the locals of a running
                      \* tick(), and the wall clock's reading at now = 0
    nconnects,        \* calls of connect() so far (bounded)
    nrecv,            \* datagrams received so far (bounded)
    ngamedata,        \* GameData datagrams received so far (bounded)
    nticks            \* clock ticks so far (bounded)

vars == <<client, now, pc, overflow_checks, panicked, out, delivered, ev,
          maketic, game, nconnects, nrecv, ngamedata, nticks>>

----------------------------------------------------------------------------
(* Program constants *)

NET_MAXPLAYERS == 8
BACKUPTICS == 128
MAX_RETRIES == 10
KEEPALIVE_PERIOD == 1000
CONNECTION_TIMEOUT == 60000
DISCONNECT_TIMEOUT == 5000
RESEND_TIMEOUT == 300
ACK_TIMEOUT == 200
CONNECT_CYCLES == 10
CONNECT_CYCLE_SLEEP == 200
CONNECT_RETRY_SLEEP == 2000
connect_data_max_players == 8

U8 == 256
I32_MAX == 2147483647
I16_MAX == 32767

(* Packet type codes, PacketType::to_u16 *)
PT_Syn == 0
PT_Ack == 1
PT_Rejected == 2
PT_KeepAlive == 3
PT_WaitingData == 4
PT_GameStart == 5
PT_GameData == 6
PT_GameDataAck == 7
PT_Disconnect == 8
PT_DisconnectAck == 9
PT_ReliableAck == 10
PT_GameDataResend == 11
PT_ConsoleMessage == 12
PT_Query == 13
PT_QueryResponse == 14
PT_Launch == 15
PT_NatHolePunch == 16

(* Bounds of the model *)
MaxSeq == 3          \* GameData base sequence bytes 0..MaxSeq (and FarBytes)
MaxTics == 2         \* tics carried by one GameData datagram
MaxData == 2         \* distinct tic payloads 1..MaxData
MaxRecv == 4         \* datagrams received per behaviour
MaxGameData == 3     \* GameData datagrams per behaviour
MaxTicks == 1        \* clock ticks per behaviour
TickMs == 400        \* length of one clock tick, ms
MaxConnects == 2     \* calls of connect() per behaviour
MaxMaketic == 1      \* local tics built per behaviour
RemoteLatency == 5   \* the latency field of a received tic, ms


----------------------------------------------------------------------------
(* Fixed-width arithmetic.  A 32-bit word is held as the integer in      *)
(* I32_MIN..I32_MAX with the same bits: a u32 of 2^31 or more is the      *)
(* negative number 2^32 below it, and `as i32` / `as u32` are identities. *)

I32_MIN == -I32_MAX - 1

I32AddOverflows(a, b) ==
    \/ b > 0 /\ a > I32_MAX - b
    \/ b < 0 /\ a < I32_MIN - b

WrapAdd(a, b) ==
    IF b > 0 /\ a > I32_MAX - b THEN (a - I32_MAX - 1) + (b - I32_MAX - 1)
    ELSE IF b < 0 /\ a < I32_MIN - b THEN (a + I32_MAX + 1) + (b + I32_MAX + 1)
    ELSE a + b

WrapSub(a, b) ==
    IF b = I32_MIN THEN WrapAdd(WrapAdd(a, I32_MAX), 1) ELSE WrapAdd(a, -b)

I32SubOverflows(a, b) ==
    \/ b < 0 /\ a > I32_MAX + b
    \/ b > 0 /\ a < I32_MIN + b

(* unsigned order of two u32 words *)
ULt(a, b) == IF (a < 0) = (b < 0) THEN a < b ELSE b < 0
ULe(a, b) == a = b \/ ULt(a, b)

(* carry out of an unsigned addition, borrow of an unsigned subtraction *)
U32AddOverflows(a, b) ==
    \/ a < 0 /\ b < 0
    \/ (a < 0) # (b < 0) /\ a + b >= 0
U32SubOverflows(a, b) == ULt(a, b)

FitsI16(x) == x >= -(I16_MAX + 1) /\ x <= I16_MAX

(* The running computation: the Client, what it has sent in this step, the  *)
(* panic that ended it (if any) and the tics given to the simulation.       *)
Machine(c, d) == [c |-> c, out |-> <<>>, panic |-> "", delivered |-> d]
Panic(m, site) == IF m.panic = "" THEN [m EXCEPT !.panic = site] ELSE m

----------------------------------------------------------------------------
(* Records *)

(* The commands of a FullTicCmd are kept as what tells two of them apart:   *)
(* the game tic the server built them for and which of the payloads it is. *)
DefaultFullTicCmd == [latency |-> 0, cmds |-> [tic |-> -1, data |-> 0]]
DefaultServerRecv == [active |-> FALSE, resend_time |-> now, cmd |-> DefaultFullTicCmd]
DefaultTicCmd ==
    [forwardmove |-> 0, sidemove |-> 0, angleturn |-> 0, chatchar |-> 0,
     buttons |-> 0, consistancy |-> 0, buttons2 |-> 0, inventory |-> 0,
     lookfly |-> 0, arti |-> 0]
DefaultTicDiff == [diff |-> 0, cmd |-> DefaultTicCmd]

DefaultServerSend == [active |-> FALSE, seq |-> 0, time |-> now, cmd |-> DefaultTicDiff]
NoSettings == [some |-> FALSE, num_players |-> 0, consoleplayer |-> 0,
               extratics |-> 0, lowres_turn |-> 0]
NoReason == "None"

DefaultWaitData == [num_players |-> 0, ready_players |-> 0, max_players |-> 0,
                    consoleplayer |-> 0]

(* A datagram handed to the socket.  `onto` is -1 for a buffer made by     *)
(* Packet::new(), and the type code of the received datagram when the      *)
(* reply was appended to the received datagram's own buffer.               *)
OutPacket(type, a, n) == [type |-> type, a |-> a, n |-> n, onto |-> -1]
ReplyOnto(p, type) == [type |-> type, a |-> 0, n |-> 0, onto |-> p.type]

send_packet(m, p) ==
    IF m.c.server_addr THEN [m EXCEPT !.out = Append(@, p)] ELSE m

----------------------------------------------------------------------------
(* Tic window engine *)

(* expand_tic_num without the step up across a 256 boundary *)
expand_tic_num_no_step_up(W, b) ==
    LET l == W % U8
        h == W - l
        r0 == h + b
    IN IF l < 64 /\ b > 176 THEN WrapSub(r0, 256) ELSE r0

expand_tic_num(W, b) ==
    LET l == W % U8
        h == W - l
        r0 == h + b
        r1 == IF l < 64 /\ b > 176 THEN WrapSub(r0, 256) ELSE r0
        r2 == IF l > 176 /\ b < 64 THEN WrapAdd(r1, 256) ELSE r1
    IN r2

(* f32 arithmetic as PIDController::update uses it.  A finite value is     *)
(* s * m * 2^e with s = 1 or -1 and m = 0 or 2^23 <= m < 2^24; every       *)
(* operation gives the exact result rounded to the nearest such value,     *)
(* ties to the even mantissa.  A number too long for one machine word is   *)
(* kept as hi * 2^24 + lo.                                                 *)
M12 == 2^12
M23 == 2^23
M24 == 2^24

F32(s, m, e) == [s |-> s, m |-> m, e |-> e]
F32Zero == F32(1, 0, 0)

RECURSIVE BitLen(_)
BitLen(n) == IF n = 0 THEN 0 ELSE 1 + BitLen(n \div 2)

RoundEven(q, r, half) ==
    IF r > half \/ (r = half /\ q % 2 = 1) THEN q + 1 ELSE q

f32_carry(s, m, e) == IF m = M24 THEN F32(s, M23, e + 1) ELSE F32(s, m, e)

(* s * n * 2^e for 0 <= n < 2^31 *)
f32_round(s, n, e) ==
    LET len == BitLen(n)
    IN IF n = 0 THEN F32Zero
       ELSE IF len <= 24 THEN F32(s, n * 2^(24 - len), e - (24 - len))
       ELSE LET sh == len - 24
            IN f32_carry(s, RoundEven(n \div 2^sh, n % 2^sh, 2^(sh - 1)), e + sh)

(* s * (hi * 2^24 + lo) * 2^e for 0 <= lo < 2^24 and 0 <= hi < 2^30 *)
f32_round2(s, hi, lo, e) ==
    LET sh == BitLen(hi)
        k == sh - 24
        q == IF sh <= 24 THEN hi * 2^(24 - sh) + lo \div 2^sh ELSE hi \div 2^k
        r == IF sh <= 24 THEN lo % 2^sh ELSE (hi % 2^k) * M24 + lo
    IN IF hi = 0 THEN f32_round(s, lo, e)
       ELSE f32_carry(s, RoundEven(q, r, 2^(sh - 1)), e + sh)

(* i as f32 *)
f32_from_i32(i) ==
    IF i = I32_MIN THEN F32(-1, M23, 8)
    ELSE f32_round(IF i < 0 THEN -1 ELSE 1, IF i < 0 THEN -i ELSE i, 0)

(* x * y *)
f32_mul(x, y) ==
    LET xh == x.m \div M12
        xl == x.m % M12
        yh == y.m \div M12
        yl == y.m % M12
        mid == xh * yl + xl * yh
        lo_sum == (mid % M12) * M12 + xl * yl
        hi == xh * yh + mid \div M12 + lo_sum \div M24
    IN IF x.m = 0 \/ y.m = 0 THEN F32Zero
       ELSE f32_round2(x.s * y.s, hi, lo_sum % M24, x.e + y.e)

(* x + y *)
f32_add(x, y) ==
    LET big == IF x.e >= y.e THEN x ELSE y
        small == IF x.e >= y.e THEN y ELSE x
        d == big.e - small.e
        hiB == IF d <= 24 THEN big.m \div 2^(24 - d) ELSE big.m * 2^(d - 24)
        loB == IF d <= 24 THEN (big.m % 2^(24 - d)) * 2^d ELSE 0
        lo_sum == loB + small.m
    IN IF x.m = 0 THEN y
       ELSE IF y.m = 0 THEN x
       ELSE IF d >= 26 THEN big
       ELSE IF big.s = small.s
       THEN f32_round2(big.s, hiB + lo_sum \div M24, lo_sum % M24, small.e)
       ELSE IF hiB = 0 /\ loB < small.m
       THEN f32_round2(small.s, 0, small.m - loB, small.e)
       ELSE IF loB >= small.m
       THEN f32_round2(big.s, hiB, loB - small.m, small.e)
       ELSE f32_round2(big.s, hiB - 1, loB + M24 - small.m, small.e)

(* x - y *)
f32_sub(x, y) == f32_add(x, [y EXCEPT !.s = -y.s])

(* x as i32: towards zero, saturating *)
f32_to_i32(x) ==
    IF x.m = 0 \/ x.e <= -24 THEN 0
    ELSE IF x.e >= 8 THEN (IF x.s = 1 THEN I32_MAX ELSE I32_MIN)
    ELSE IF x.e >= 0 THEN x.s * (x.m * 2^x.e)
    ELSE x.s * (x.m \div 2^(-x.e))

(* PIDController::new(0.1, 0.01, 0.02): the f32 nearest to each literal *)
kp == F32(1, 13421773, -27)
ki == F32(1, 10737418, -30)
kd == F32(1, 10737418, -29)

PIDController_offset_integral_added(pid, error) ==
    LET cumul_error == WrapAdd(pid.cumul_error, error)
        d_error == WrapSub(error, pid.last_error)
    IN f32_to_i32(f32_add(f32_add(f32_mul(kp, f32_from_i32(error)),
                                  f32_mul(ki, f32_from_i32(cumul_error))),
                          f32_mul(kd, f32_from_i32(d_error))))

(* the value PIDController::update returns for error, from the controller  *)
(* state pid it is entered with                                            *)
PIDController_offset(pid, error) ==
    LET cumul_error == WrapAdd(pid.cumul_error, error)
        d_error == WrapSub(error, pid.last_error)
    IN f32_to_i32(f32_add(f32_sub(f32_mul(kp, f32_from_i32(error)),
                                  f32_mul(ki, f32_from_i32(cumul_error))),
                          f32_mul(kd, f32_from_i32(d_error))))

PIDController_update(m, error) ==
    LET pid == m.c.pid_controller
    IN IF overflow_checks /\ (I32AddOverflows(pid.cumul_error, error)
                              \/ I32SubOverflows(error, pid.last_error))
       THEN Panic(m, "PIDController::update: arithmetic overflow")
       ELSE [m EXCEPT !.c.pid_controller =
                [cumul_error |-> WrapAdd(pid.cumul_error, error),
                 last_error |-> error]]

update_clock_sync(m, seq, remote_latency) ==
    LET latency == now - m.c.send_queue[seq % BACKUPTICS].time
        m1 == PIDController_update(m, WrapSub(latency, remote_latency))
    IN IF overflow_checks /\ I32SubOverflows(latency, remote_latency)
       THEN Panic(m, "update_clock_sync: subtract with overflow")
       ELSE IF m1.panic # "" THEN m1
       ELSE [m1 EXCEPT !.c.last_latency = latency]

store_received_tic(m, seq, cmd) ==
    LET index == WrapSub(seq, m.c.recv_window_start)
    IN IF overflow_checks /\ U32SubOverflows(seq, m.c.recv_window_start)
       THEN Panic(m, "store_received_tic: subtract with overflow")
       ELSE IF index >= 0 /\ index < BACKUPTICS
       THEN update_clock_sync(
                [m EXCEPT !.c.recv_window[index].active = TRUE,
                          !.c.recv_window[index].cmd = cmd],
                seq, cmd.latency)
       ELSE m

send_resend_request_stamp(w, W, start, end) ==
    [k \in 0..(BACKUPTICS - 1) |->
        IF ULe(start, WrapAdd(W, k)) /\ ULe(WrapAdd(W, k), end)
        THEN [w[k] EXCEPT !.resend_time = now]
        ELSE w[k]]

send_resend_request(m, start, end) ==
    LET m1 == send_packet(m, OutPacket(PT_GameDataResend, start,
                                       WrapAdd(WrapSub(end, start), 1) % U8))
    IN [m1 EXCEPT !.c.recv_window =
            send_resend_request_stamp(@, m.c.recv_window_start, start, end)]

(* the while loop of check_for_missing_tics: from slot k down to the first *)
(* active slot; -1 when there is none; BACKUPTICS stands for the index     *)
(* k >= BACKUPTICS that recv_window[k] refuses.                            *)
scan_missing(w, k) ==
    IF k < 0 THEN k
    ELSE IF k >= BACKUPTICS THEN BACKUPTICS
    ELSE LET act == {j \in 0..k : w[j].active}
         IN IF act = {} THEN -1 ELSE CHOOSE j \in act : \A i \in act : i <= j

check_for_missing_tics(m, seq) ==
    LET W == m.c.recv_window_start
        resend_end == WrapSub(seq, W)
        resend_start == scan_missing(m.c.recv_window, resend_end - 1)
        s0 == WrapAdd(W, resend_start)
        s1 == WrapAdd(s0, 1)
        e0 == WrapAdd(W, resend_end)
        e1 == WrapSub(e0, 1)
    IN IF overflow_checks /\ I32SubOverflows(seq, W)
       THEN Panic(m, "check_for_missing_tics: subtract with overflow")
       ELSE IF resend_end <= 0 THEN m
       ELSE IF resend_start >= BACKUPTICS
       THEN Panic(m, "check_for_missing_tics: index out of bounds")
       ELSE IF ~(resend_start < resend_end - 1) THEN m
       ELSE IF overflow_checks /\ (U32AddOverflows(W, resend_start)
                                   \/ U32AddOverflows(s0, 1)
                                   \/ U32AddOverflows(W, resend_end)
                                   \/ U32SubOverflows(e0, 1))
       THEN Panic(m, "check_for_missing_tics: add with overflow")
       ELSE send_resend_request(m, s1, e1)

send_game_data_ack(m) ==
    LET m1 == send_packet(m, OutPacket(PT_GameDataAck,
                                       m.c.recv_window_start % U8, 0))
    IN [m1 EXCEPT !.c.need_acknowledge = FALSE]

RECURSIVE parse_game_data_loop(_, _, _, _)
parse_game_data_loop(m, seq, p, i) ==
    IF i >= p.num_tics \/ m.panic # "" THEN m
    ELSE IF i >= Len(p.tics) THEN parse_game_data_loop(m, seq, p, i + 1)
    ELSE IF overflow_checks /\ U32AddOverflows(seq, i)
    THEN Panic(m, "parse_game_data: add with overflow")
    ELSE parse_game_data_loop(
             store_received_tic(m, WrapAdd(seq, i), p.tics[i + 1]),
             seq, p, i + 1)

parse_game_data(m, p) ==
    IF ~p.ok THEN m
    ELSE
    LET seq == expand_tic_num(m.c.recv_window_start, p.b)
        m1 == parse_game_data_loop(m, seq, p, 0)
        m2 == [m1 EXCEPT !.c.need_acknowledge = TRUE,
                         !.c.gamedata_recv_time = now]
        m3 == check_for_missing_tics(m2, seq)
    IN IF m1.panic # "" THEN m1
       ELSE IF m3.panic # "" THEN m3
       ELSE send_game_data_ack(m3)

(* rotate_left(2): a window that slides two slots for one delivered tic *)
rotate_left_by_two(w) ==
    [k \in 0..(BACKUPTICS - 1) |->
        IF k >= BACKUPTICS - 2 THEN DefaultServerRecv ELSE w[k + 2]]

rotate_left(w) ==
    [k \in 0..(BACKUPTICS - 1) |->
        IF k = BACKUPTICS - 1 THEN DefaultServerRecv ELSE w[k + 1]]

(* advance_window that forgets to move recv_window_start *)
RECURSIVE advance_window_stale(_)
advance_window_stale(m) ==
    IF ~m.c.recv_window[0].active THEN m
    ELSE advance_window_stale(
            [m EXCEPT !.delivered = Append(@, [tic |-> m.c.recv_window_start,
                                               cmd |-> m.c.recv_window[0].cmd]),
                      !.c.recv_window = rotate_left(@)])

RECURSIVE advance_window(_)
advance_window(m) ==
    IF ~m.c.recv_window[0].active \/ m.panic # "" THEN m
    ELSE LET m1 == [m EXCEPT !.delivered = Append(@, [tic |-> m.c.recv_window_start,
                                                      cmd |-> m.c.recv_window[0].cmd]),
                             !.c.recv_window = rotate_left(@)]
         IN IF overflow_checks /\ U32AddOverflows(m.c.recv_window_start, 1)
            THEN Panic(m1, "advance_window: add with overflow")
            ELSE advance_window([m1 EXCEPT !.c.recv_window_start = WrapAdd(@, 1)])

need_resend(w, i) ==
    ~w[i].active /\ now - w[i].resend_time > RESEND_TIMEOUT

(* check_resends that asks for everything from the first slot that needs  *)
(* a resend to the last one in a single request                            *)
check_resends_loop_one_span(m, need, i) ==
    IF need = {} THEN m
    ELSE LET lo == CHOOSE k \in need : \A j \in need : k <= j
             hi == CHOOSE k \in need : \A j \in need : j <= k
         IN send_resend_request(m, WrapAdd(m.c.recv_window_start, lo),
                                WrapAdd(m.c.recv_window_start, hi))

(* The for loop of check_resends sends one request per maximal run of      *)
(* slots that need a resend, in slot order.  A request stamps only slots   *)
(* the loop has passed, so the runs are those of the window at entry.      *)
RECURSIVE check_resends_loop(_, _, _)
check_resends_loop(m, need, i) ==
    LET W == m.c.recv_window_start
        rest == {k \in need : k >= i}
        resend_start == CHOOSE k \in rest : \A j \in rest : k <= j
        stops == {k \in resend_start..(BACKUPTICS - 1) : k + 1 \notin need}
        resend_end == CHOOSE k \in stops : \A j \in stops : k <= j
    IN IF rest = {} THEN m
       ELSE IF overflow_checks /\ (U32AddOverflows(W, resend_start)
                                   \/ U32AddOverflows(W, resend_end))
       THEN Panic(m, "check_resends: add with overflow")
       ELSE check_resends_loop(
                send_resend_request(m, WrapAdd(W, resend_start),
                                    WrapAdd(W, resend_end)),
                need, resend_end + 1)

check_resends(m) ==
    LET m1 == check_resends_loop(m,
                 {i \in 0..(BACKUPTICS - 1) : need_resend(m.c.recv_window, i)}, 0)
    IN IF m1.panic # "" THEN m1
       ELSE IF m1.c.need_acknowledge /\ now - m1.c.gamedata_recv_time > ACK_TIMEOUT
       THEN send_game_data_ack(m1)
       ELSE m1

----------------------------------------------------------------------------
(* Wire codec: a packet's data is a sequence of bytes 0..255.  The writers *)
(* give the bytes they append, the readers take the bytes at the cursor.   *)

write_u8(value) == <<value % U8>>
write_i8(value) == write_u8(value)
write_u16(value) == <<value % U8, (value \div U8) % U8>>
write_i16(value) == <<value % U8, (value \div U8) % U8>>
write_u32(value) ==
    <<value % U8, (value \div U8) % U8, (value \div (U8 * U8)) % U8,
      (value \div (U8 * U8 * U8)) % U8>>
write_i32(value) == write_u32(value)

AsI8(b) == IF b >= 128 THEN b - U8 ELSE b
AsI16(v) == IF v >= 32768 THEN v - 65536 ELSE v
read_u8(data, pos) == data[pos]
read_i8(data, pos) == AsI8(data[pos])
read_u16(data, pos) == data[pos] * U8 + data[pos + 1]
read_i16(data, pos) == AsI16(read_u16(data, pos))
(* a u32 is kept as the i32 with the same bits *)
read_u32(data, pos) ==
    AsI8(data[pos]) * (U8 * U8 * U8) + data[pos + 1] * (U8 * U8)
        + data[pos + 2] * U8 + data[pos + 3]
read_i32(data, pos) == read_u32(data, pos)

PacketType_from_u16(value) == IF value \in 0..PT_NatHolePunch THEN value ELSE -1

NET_TICDIFF_FORWARD == 1
NET_TICDIFF_SIDE == 2
NET_TICDIFF_TURN == 4
NET_TICDIFF_BUTTONS == 8
NET_TICDIFF_CONSISTANCY == 16
NET_TICDIFF_CHATCHAR == 32
NET_TICDIFF_RAVEN == 64
NET_TICDIFF_STRIFE == 128
(* diff & bit != 0, for a bit that is a power of two *)
Has(diff, bit) == (diff \div bit) % 2 = 1
Flag(cond, bit) == IF cond THEN bit ELSE 0

calculate_ticcmd_diff(last_ticcmd, ticcmd) ==
    LET raven == last_ticcmd.lookfly # ticcmd.lookfly \/ ticcmd.arti # 0
        strife == last_ticcmd.buttons2 # ticcmd.buttons2 \/ ticcmd.inventory # 0
    IN [diff |-> Flag(last_ticcmd.forwardmove # ticcmd.forwardmove, NET_TICDIFF_FORWARD)
                 + Flag(last_ticcmd.sidemove # ticcmd.sidemove, NET_TICDIFF_SIDE)
                 + Flag(last_ticcmd.angleturn # ticcmd.angleturn, NET_TICDIFF_TURN)
                 + Flag(last_ticcmd.buttons # ticcmd.buttons, NET_TICDIFF_BUTTONS)
                 + Flag(last_ticcmd.consistancy # ticcmd.consistancy, NET_TICDIFF_CONSISTANCY)
                 + Flag(ticcmd.chatchar # 0, NET_TICDIFF_CHATCHAR)
                 + Flag(raven, NET_TICDIFF_RAVEN)
                 + Flag(strife, NET_TICDIFF_STRIFE),
        cmd |-> [ticcmd EXCEPT
                    !.chatchar = IF ticcmd.chatchar # 0 THEN @ ELSE 0,
                    !.arti = IF raven THEN @ ELSE 0,
                    !.inventory = IF strife THEN @ ELSE 0]]

(* i16 / 256 in Rust rounds towards zero *)
DivTowardsZero(a, b) == IF a >= 0 THEN a \div b ELSE -((-a) \div b)
When(cond, bytes) == IF cond THEN bytes ELSE <<>>

write_ticcmd_diff(diff, lowres_turn) ==
    write_u8(diff.diff)
    \o When(Has(diff.diff, NET_TICDIFF_FORWARD), write_i8(diff.cmd.forwardmove))
    \o When(Has(diff.diff, NET_TICDIFF_SIDE), write_i8(diff.cmd.sidemove))
    \o When(Has(diff.diff, NET_TICDIFF_TURN),
            IF lowres_turn
            THEN write_i8(DivTowardsZero(diff.cmd.angleturn, 256))
            ELSE write_i16(diff.cmd.angleturn))
    \o When(Has(diff.diff, NET_TICDIFF_BUTTONS), write_u8(diff.cmd.buttons))
    \o When(Has(diff.diff, NET_TICDIFF_CONSISTANCY), write_u8(diff.cmd.consistancy))
    \o When(Has(diff.diff, NET_TICDIFF_CHATCHAR), write_u8(diff.cmd.chatchar))
    \o When(Has(diff.diff, NET_TICDIFF_RAVEN),
            write_u8(diff.cmd.lookfly) \o write_u8(diff.cmd.arti))
    \o When(Has(diff.diff, NET_TICDIFF_STRIFE),
            write_u8(diff.cmd.buttons2) \o write_i16(diff.cmd.inventory))

(* read_ticcmd_diff at the start of data: the cursor before each field is  *)
(* the sum of the sizes of the fields present before it; the result is     *)
(* None when data ends before the last field present.                      *)
read_ticcmd_diff(data, lowres_turn) ==
    IF Len(data) < 1 THEN [some |-> FALSE, diff |-> DefaultTicDiff]
    ELSE
    LET d == read_u8(data, 1)
        pForward == 2
        pSide == pForward + Flag(Has(d, NET_TICDIFF_FORWARD), 1)
        pTurn == pSide + Flag(Has(d, NET_TICDIFF_SIDE), 1)
        pButtons == pTurn + Flag(Has(d, NET_TICDIFF_TURN), IF lowres_turn THEN 1 ELSE 2)
        pConsistancy == pButtons + Flag(Has(d, NET_TICDIFF_BUTTONS), 1)
        pChatchar == pConsistancy + Flag(Has(d, NET_TICDIFF_CONSISTANCY), 1)
        pRaven == pChatchar + Flag(Has(d, NET_TICDIFF_CHATCHAR), 1)
        pStrife == pRaven + Flag(Has(d, NET_TICDIFF_RAVEN), 2)
        pEnd == pStrife + Flag(Has(d, NET_TICDIFF_STRIFE), 3)
    IN IF pEnd - 1 > Len(data) THEN [some |-> FALSE, diff |-> DefaultTicDiff]
       ELSE [some |-> TRUE,
             diff |-> [diff |-> d,
                cmd |-> [forwardmove |-> IF Has(d, NET_TICDIFF_FORWARD)
                                         THEN read_i8(data, pForward) ELSE 0,
                         sidemove |-> IF Has(d, NET_TICDIFF_SIDE)
                                      THEN read_i8(data, pSide) ELSE 0,
                         angleturn |-> IF ~Has(d, NET_TICDIFF_TURN) THEN 0
                                       ELSE IF lowres_turn
                                       THEN read_i8(data, pTurn) * 256
                                       ELSE read_i16(data, pTurn),
                         buttons |-> IF Has(d, NET_TICDIFF_BUTTONS)
                                     THEN read_u8(data, pButtons) ELSE 0,
                         consistancy |-> IF Has(d, NET_TICDIFF_CONSISTANCY)
                                         THEN read_u8(data, pConsistancy) ELSE 0,
                         chatchar |-> IF Has(d, NET_TICDIFF_CHATCHAR)
                                      THEN read_u8(data, pChatchar) ELSE 0,
                         lookfly |-> IF Has(d, NET_TICDIFF_RAVEN)
                                     THEN read_u8(data, pRaven) ELSE 0,
                         arti |-> IF Has(d, NET_TICDIFF_RAVEN)
                                  THEN read_u8(data, pRaven + 1) ELSE 0,
                         buttons2 |-> IF Has(d, NET_TICDIFF_STRIFE)
                                      THEN read_u8(data, pStrife) ELSE 0,
                         inventory |-> IF Has(d, NET_TICDIFF_STRIFE)
                                       THEN read_i16(data, pStrife + 1) ELSE 0]]]

(* GameSettings on the wire: twelve bytes, the 32-bit timelimit, four     *)
(* bytes, then one class byte for each of num_players players.             *)
DefaultGameSettings ==
    [ticdup |-> 0, extratics |-> 0, deathmatch |-> 0, episode |-> 0,
     nomonsters |-> 0, fast_monsters |-> 0, respawn_monsters |-> 0, map |-> 0,
     skill |-> 0, gameversion |-> 0, lowres_turn |-> 0, new_sync |-> 0,
     timelimit |-> 0, loadgame |-> 0, random |-> 0, num_players |-> 0,
     consoleplayer |-> 0,
     player_classes |-> [i \in 1..NET_MAXPLAYERS |-> 0]]

RECURSIVE write_player_classes(_, _)
write_player_classes(settings, i) ==
    IF i >= settings.num_players THEN <<>>
    ELSE write_u8(settings.player_classes[i + 1])
         \o write_player_classes(settings, i + 1)

write_settings(settings) ==
    write_u8(settings.ticdup) \o write_u8(settings.extratics)
    \o write_u8(settings.deathmatch) \o write_u8(settings.nomonsters)
    \o write_u8(settings.fast_monsters) \o write_u8(settings.respawn_monsters)
    \o write_u8(settings.episode) \o write_u8(settings.map)
    \o write_i8(settings.skill) \o write_u8(settings.gameversion)
    \o write_u8(settings.lowres_turn) \o write_u8(settings.new_sync)
    \o write_u32(settings.timelimit)
    \o write_i8(settings.loadgame) \o write_u8(settings.random)
    \o write_u8(settings.num_players) \o write_i8(settings.consoleplayer)
    \o write_player_classes(settings, 0)

SettingsHeaderLen == 20

(* Packet::read_settings at the start of data, with the bytes themselves:  *)
(* None when data ends early, a panic when a class is stored past the      *)
(* array's end.                                                            *)
read_settings_data(data) ==
    IF Len(data) < SettingsHeaderLen
    THEN [status |-> "None", settings |-> DefaultGameSettings]
    ELSE
    LET num_players == read_u8(data, 19)
        nitems == Len(data) - SettingsHeaderLen
        stored == IF nitems < num_players THEN nitems ELSE num_players
        header == [DefaultGameSettings EXCEPT
            !.ticdup = read_u8(data, 1), !.extratics = read_u8(data, 2),
            !.deathmatch = read_u8(data, 3), !.nomonsters = read_u8(data, 4),
            !.fast_monsters = read_u8(data, 5),
            !.respawn_monsters = read_u8(data, 6),
            !.episode = read_u8(data, 7), !.map = read_u8(data, 8),
            !.skill = read_i8(data, 9), !.gameversion = read_u8(data, 10),
            !.lowres_turn = read_u8(data, 11), !.new_sync = read_u8(data, 12),
            !.timelimit = read_u32(data, 13), !.loadgame = read_i8(data, 17),
            !.random = read_u8(data, 18), !.num_players = num_players,
            !.consoleplayer = read_i8(data, 20)]
    IN IF stored > NET_MAXPLAYERS
       THEN [status |-> "index out of bounds", settings |-> header]
       ELSE IF nitems < num_players
       THEN [status |-> "None", settings |-> header]
       ELSE [status |-> "Some",
             settings |-> [header EXCEPT !.player_classes =
                 [i \in 1..NET_MAXPLAYERS |->
                     IF i <= num_players
                     THEN read_u8(data, SettingsHeaderLen + i) ELSE 0]]]

(* the TicCmd that apply_ticcmd_diff leaves in *result and in *base *)
apply_ticcmd_diff(base, diff) ==
    [forwardmove |-> IF Has(diff.diff, NET_TICDIFF_FORWARD)
                     THEN diff.cmd.forwardmove ELSE base.forwardmove,
     sidemove |-> IF Has(diff.diff, NET_TICDIFF_SIDE)
                  THEN diff.cmd.sidemove ELSE base.sidemove,
     angleturn |-> IF Has(diff.diff, NET_TICDIFF_TURN)
                   THEN diff.cmd.angleturn ELSE base.angleturn,
     buttons |-> IF Has(diff.diff, NET_TICDIFF_BUTTONS)
                 THEN diff.cmd.buttons ELSE base.buttons,
     consistancy |-> IF Has(diff.diff, NET_TICDIFF_CONSISTANCY)
                     THEN diff.cmd.consistancy ELSE base.consistancy,
     chatchar |-> IF Has(diff.diff, NET_TICDIFF_CHATCHAR)
                  THEN diff.cmd.chatchar ELSE 0,
     lookfly |-> IF Has(diff.diff, NET_TICDIFF_RAVEN)
                 THEN diff.cmd.lookfly ELSE base.lookfly,
     arti |-> IF Has(diff.diff, NET_TICDIFF_RAVEN) THEN diff.cmd.arti ELSE 0,
     buttons2 |-> IF Has(diff.diff, NET_TICDIFF_STRIFE)
                  THEN diff.cmd.buttons2 ELSE base.buttons2,
     inventory |-> IF Has(diff.diff, NET_TICDIFF_STRIFE)
                   THEN diff.cmd.inventory ELSE 0]

----------------------------------------------------------------------------
(* Sending local tics *)

send_tics(m, start, end) ==
    IF ~m.c.net_client_connected THEN m
    ELSE IF overflow_checks /\ (U32SubOverflows(end, start)
                                \/ U32AddOverflows(WrapSub(end, start), 1))
    THEN Panic(m, "send_tics: arithmetic overflow")
    ELSE IF ULe(start, end) /\ ~FitsI16(m.c.last_latency)
    THEN Panic(m, "send_tics: last_latency.try_into().unwrap()")
    ELSE LET m1 == send_packet(m, OutPacket(PT_GameData, start % U8,
                                   WrapAdd(WrapSub(end, start), 1) % U8))
         IN [m1 EXCEPT !.c.need_acknowledge = FALSE]

send_ticcmd(m, ticcmd, tic) ==
    LET m1 == [m EXCEPT !.c.send_queue[tic % BACKUPTICS] =
                   [active |-> TRUE, seq |-> tic, time |-> now,
                    cmd |-> calculate_ticcmd_diff(m.c.last_ticcmd, ticcmd)]]
        ex == m.c.settings.extratics
        starttic == IF ~m.c.settings.some THEN 0
                    ELSE IF ULt(tic, ex) THEN 0 ELSE WrapSub(tic, ex)
    IN send_tics(m1, starttic, tic)

(* The tics of the send queue that answer to their own sequence number *)
SentSeqs(sq) ==
    {sq[k].seq : k \in {j \in 0..(BACKUPTICS - 1) : sq[j].active /\ sq[j].seq % BACKUPTICS = j}}
UMin(S) == CHOOSE x \in S : \A y \in S : ULe(x, y)
UMax(S) == CHOOSE x \in S : \A y \in S : ULe(y, x)

(* calculate_resend_range: the first loop steps resend_start up to the     *)
(* first tic of [start, end] held in the send queue, the second steps      *)
(* resend_end down to the last one.  When none is held resend_start stops  *)
(* at end + 1; with end = u32::MAX that increment overflows: a panic with  *)
(* overflow checks, and else the scan goes on from 0.                      *)
calculate_resend_range(sq, start, end) ==
    LET held == {t \in SentSeqs(sq) : ULe(start, t) /\ ULe(t, end)}
        any == SentSeqs(sq)
    IN IF held # {} THEN [status |-> "ok", start |-> UMin(held), end |-> UMax(held)]
       ELSE IF ULt(end, start) THEN [status |-> "ok", start |-> start, end |-> end]
       ELSE IF end # -1 THEN [status |-> "ok", start |-> WrapAdd(end, 1), end |-> end]
       ELSE IF overflow_checks THEN [status |-> "overflow", start |-> 0, end |-> end]
       ELSE IF any = {} THEN [status |-> "hang", start |-> 0, end |-> end]
       ELSE [status |-> "ok", start |-> UMin(any), end |-> UMax(any)]

parse_resend_request(m, p) ==
    IF m.c.drone THEN m
    ELSE IF ~p.ok THEN m
    ELSE IF overflow_checks /\ (I32AddOverflows(p.start, p.num_tics)
                                \/ I32SubOverflows(WrapAdd(p.start, p.num_tics), 1))
    THEN Panic(m, "parse_resend_request: add with overflow")
    ELSE LET end == WrapSub(WrapAdd(p.start, p.num_tics), 1)
             r == calculate_resend_range(m.c.send_queue, p.start, end)
         IN IF r.status = "overflow"
            THEN Panic(m, "calculate_resend_range: add with overflow")
            ELSE IF r.status = "hang"
            THEN Panic(m, "calculate_resend_range: loop never ends")
            ELSE IF ULe(r.start, r.end) THEN send_tics(m, r.start, r.end)
            ELSE m

generate_bot_ticcmd == [DefaultTicCmd EXCEPT !.forwardmove = 50]

run_bot(m) ==
    IF m.c.state = "InGame" /\ m.c.drone
    THEN IF overflow_checks /\ U32AddOverflows(m.c.recv_window_start, BACKUPTICS)
         THEN Panic(m, "run_bot: add with overflow")
         ELSE send_ticcmd(m, generate_bot_ticcmd,
                          WrapAdd(m.c.recv_window_start, BACKUPTICS))
    ELSE m

----------------------------------------------------------------------------
(* Session state machine *)

shutdown(m) ==
    [m EXCEPT !.c.state = "Disconnected", !.c.net_client_connected = FALSE]

send_ack(m, p) == send_packet(m, ReplyOnto(p, PT_Ack))

parse_syn(m, p) ==
    IF p.proto
    THEN send_ack([m EXCEPT !.c.protocol = "ChocolateDoom0",
                            !.c.state = "Connected"], p)
    ELSE [m EXCEPT !.c.reject_reason = "No common protocol"]

(* parse_reject without the test of the session state *)
parse_reject_any_state(m, p) ==
    IF p.ok
    THEN shutdown([m EXCEPT !.c.state = "Disconnected",
                            !.c.reject_reason = p.reason])
    ELSE m

parse_reject(m, p) ==
    IF m.c.state = "Connecting" /\ p.ok
    THEN shutdown([m EXCEPT !.c.state = "Disconnected",
                            !.c.reject_reason = p.reason])
    ELSE m

(* `x as usize` of an i32 on a 64-bit target: a negative x becomes a       *)
(* number above every u8, so `(x as usize) < (n as usize)` is false for    *)
(* x < 0 and 0 <= n.                                                       *)
UsizeLt(x, n) == x >= 0 /\ x < n

(* Packet::read_wait_data / read_settings: the fixed header, then one item *)
(* per player written into an array of NET_MAXPLAYERS entries.  The item   *)
(* is read before the array is indexed.                                    *)
read_per_player(p) ==
    IF ~p.ok THEN "None"
    ELSE IF p.nitems >= p.num_players
    THEN IF p.num_players > NET_MAXPLAYERS THEN "index out of bounds" ELSE "Some"
    ELSE IF p.nitems > NET_MAXPLAYERS THEN "index out of bounds" ELSE "None"

read_wait_data(p) == read_per_player(p)
read_settings(p) == read_per_player(p)

validate_wait_data(c, p) ==
    /\ p.num_players <= p.max_players
    /\ p.ready_players <= p.num_players
    /\ p.max_players <= NET_MAXPLAYERS
    /\ \/ p.consoleplayer >= 0 /\ ~c.drone
       \/ p.consoleplayer < 0 /\ c.drone
       \/ UsizeLt(p.consoleplayer, p.num_players)

parse_waiting_data(m, p) ==
    LET r == read_wait_data(p)
    IN IF r = "index out of bounds"
       THEN Panic(m, "read_wait_data: index out of bounds")
       ELSE IF r = "Some" /\ validate_wait_data(m.c, p)
       THEN send_ack([m EXCEPT
                !.c.net_client_wait_data =
                    [num_players |-> p.num_players, ready_players |-> p.ready_players,
                     max_players |-> p.max_players, consoleplayer |-> p.consoleplayer],
                !.c.net_client_received_wait_data = TRUE,
                !.c.max_players = p.max_players], p)
       ELSE m

parse_launch(m, p) ==
    IF m.c.state = "WaitingLaunch" /\ p.ok
    THEN send_packet([m EXCEPT !.c.net_client_wait_data.num_players = p.num_players,
                               !.c.state = "WaitingStart"],
                     OutPacket(PT_Launch, 0, 0))
    ELSE m

validate_game_settings(c, p) ==
    /\ p.num_players <= NET_MAXPLAYERS
    /\ UsizeLt(p.consoleplayer, p.num_players)
    /\ \/ c.drone /\ p.consoleplayer < 0
       \/ ~c.drone /\ p.consoleplayer >= 0

init_game_state(m) ==
    [m EXCEPT !.c.recv_window_start = 0,
              !.c.recv_window = [k \in 0..(BACKUPTICS - 1) |-> DefaultServerRecv],
              !.c.send_queue = [k \in 0..(BACKUPTICS - 1) |-> DefaultServerSend],
              !.delivered = <<>>]

SettingsOf(p) == [some |-> TRUE, num_players |-> p.num_players,
                  consoleplayer |-> p.consoleplayer, extratics |-> p.extratics,
                  lowres_turn |-> 0]

parse_game_start(m, p) ==
    LET r == read_settings(p)
    IN IF r = "index out of bounds"
       THEN Panic(m, "read_settings: index out of bounds")
       ELSE IF r = "Some" /\ validate_game_settings(m.c, p)
       THEN send_ack(init_game_state(
                [m EXCEPT !.c.state = "InGame", !.c.settings = SettingsOf(p)]), p)
       ELSE m

parse_disconnect(m, p) ==
    shutdown(send_packet(m, ReplyOnto(p, PT_DisconnectAck)))

parse_disconnect_ack(m, p) ==
    IF m.c.state = "Disconnecting" THEN shutdown(m) ELSE m

(* parse_packet that takes an unknown type code for a Disconnect *)
parse_packet_unknown_disconnects(m, p) ==
    CASE p.type = PT_Syn -> parse_syn(m, p)
      [] p.type = PT_Rejected -> parse_reject(m, p)
      [] p.type = PT_WaitingData -> parse_waiting_data(m, p)
      [] p.type = PT_Launch -> parse_launch(m, p)
      [] p.type = PT_GameStart -> parse_game_start(m, p)
      [] p.type = PT_GameData -> parse_game_data(m, p)
      [] p.type = PT_GameDataResend -> parse_resend_request(m, p)
      [] p.type \in {PT_Disconnect, 17} -> parse_disconnect(m, p)
      [] p.type = PT_DisconnectAck -> parse_disconnect_ack(m, p)
      [] OTHER -> m

parse_packet(m, p) ==
    CASE p.type = PT_Syn -> parse_syn(m, p)
      [] p.type = PT_Rejected -> parse_reject(m, p)
      [] p.type = PT_WaitingData -> parse_waiting_data(m, p)
      [] p.type = PT_Launch -> parse_launch(m, p)
      [] p.type = PT_GameStart -> parse_game_start(m, p)
      [] p.type = PT_GameData -> parse_game_data(m, p)
      [] p.type = PT_GameDataResend -> parse_resend_request(m, p)
      [] p.type = PT_Disconnect -> parse_disconnect(m, p)
      [] p.type = PT_DisconnectAck -> parse_disconnect_ack(m, p)
      [] OTHER -> m

handle_state(m) ==
    CASE m.c.state = "Connecting" ->
            IF now - m.c.start_time > CONNECTION_TIMEOUT
            THEN shutdown([m EXCEPT !.c.reject_reason = "Connection attempt timed out"])
            ELSE m
      [] m.c.state \in {"Connected", "WaitingLaunch"} ->
            [m EXCEPT !.c.net_waiting_for_launch = TRUE]
      [] m.c.state = "InGame" -> advance_window(m)
      [] m.c.state = "Disconnecting" ->
            IF now - m.c.start_time > DISCONNECT_TIMEOUT THEN shutdown(m) ELSE m
      [] OTHER -> m

send_keepalive(m) ==
    IF m.c.state \in {"Connected", "InGame"}
       /\ now - m.c.last_send_time > KEEPALIVE_PERIOD
    THEN [send_packet(m, OutPacket(PT_GameDataAck, m.c.recv_window_start % U8, 0))
             EXCEPT !.c.last_send_time = now]
    ELSE m

(* Client::run after the receive loop has drained the socket *)
run_tail(m) ==
    LET m1 == handle_state(m)
    IN IF m1.panic # "" THEN m1 ELSE check_resends(send_keepalive(m1))

RECURSIVE send_disconnects(_, _)
send_disconnects(m, k) ==
    IF k = 0 THEN m
    ELSE send_disconnects(send_packet(m, OutPacket(PT_Disconnect, 0, 0)), k - 1)

disconnect(m) ==
    IF ~m.c.net_client_connected THEN m
    ELSE shutdown(send_disconnects(
            [m EXCEPT !.c.state = "Disconnecting", !.c.start_time = now], 5))

get_settings(c) == IF c.state # "InGame" THEN NoSettings ELSE c.settings

----------------------------------------------------------------------------
(* Datagrams the network may deliver.  A datagram is described by what the *)
(* decoder reads from it: the type code (-1: too short to hold one), `ok`  *)
(* (the fixed fields after the type code are all there), and the fields.   *)
(* `nitems` counts the per-player items that follow the fixed header;      *)
(* `tics` are the FullTicCmds that decode, of the num_tics announced.      *)

Pkt(t) == [type |-> t, ok |-> TRUE, proto |-> FALSE, reason |-> "",
           num_players |-> 0, consoleplayer |-> 0, nitems |-> 0,
           ready_players |-> 0, max_players |-> 0, extratics |-> 0,
           b |-> 0, num_tics |-> 0, tics |-> <<>>, start |-> 0]
NoPacket == Pkt(-2)

PlainPackets ==
    {Pkt(17), Pkt(PT_Disconnect), Pkt(PT_DisconnectAck),
     [Pkt(PT_Syn) EXCEPT !.proto = TRUE], Pkt(PT_Syn),
     [Pkt(PT_Rejected) EXCEPT !.reason = "server full"],
     [Pkt(PT_Launch) EXCEPT !.num_players = 2]}

WaitingDataPacket(n, r, mx, cp, items) ==
    [Pkt(PT_WaitingData) EXCEPT !.num_players = n, !.ready_players = r,
        !.max_players = mx, !.consoleplayer = cp, !.nitems = items]
WaitingDataPackets ==
    {WaitingDataPacket(2, 1, 8, 0, 2), WaitingDataPacket(2, 1, 8, -1, 2)}

GameStartPacket(n, cp, items, ex) ==
    [Pkt(PT_GameStart) EXCEPT !.num_players = n, !.consoleplayer = cp,
        !.nitems = items, !.extratics = ex]
GameStartPackets ==
    {GameStartPacket(2, 0, 2, 1), GameStartPacket(2, -1, 2, 0),
     GameStartPacket(2, 2, 2, 0), GameStartPacket(9, 0, 9, 0),
     GameStartPacket(2, 0, 1, 0)}

FullTicCmd(t, d) == [latency |-> RemoteLatency, cmds |-> [tic |-> t, data |-> d]]
FarBytes == {176}
GameDataPacket(b, n, d, announced) ==
    [Pkt(PT_GameData) EXCEPT !.b = b, !.num_tics = announced,
        !.tics = [i \in 1..n |-> FullTicCmd(b + i - 1, d)]]
GameDataPackets ==
    {GameDataPacket(b, 1, d, 1) : b \in 0..MaxSeq, d \in 1..MaxData}
    \cup {GameDataPacket(b, n, 1, n) : b \in 0..MaxSeq, n \in 2..MaxTics}
    \cup {GameDataPacket(b, 1, 1, 1) : b \in FarBytes}
    \cup {GameDataPacket(0, 1, 1, 2), [Pkt(PT_GameData) EXCEPT !.ok = FALSE]}

ResendPacket(start, n) ==
    [Pkt(PT_GameDataResend) EXCEPT !.start = start, !.num_tics = n]
ResendPackets ==
    {ResendPacket(0, 2), ResendPacket(-1, 1),
     [Pkt(PT_GameDataResend) EXCEPT !.ok = FALSE]}

(* what the session state machine is driven with, and what a session in   *)
(* the game is driven with                                                 *)
SessionPackets ==
    PlainPackets \cup WaitingDataPackets \cup GameStartPackets
    \cup {GameDataPacket(0, 1, 1, 1), ResendPacket(0, 2)}
GamePackets == GameDataPackets

----------------------------------------------------------------------------
(* The host: src/main.rs and the loop driver call connect, run, disconnect *)
(* and send_ticcmd from one thread.  pc.at is "start" in the connect retry *)
(* loop of main, "idle" between the calls of its later loops and "recv"    *)
(* inside the receive loop of Client::run; pc.caller tells whether that    *)
(* run() was called by the host or by the for loop of connect().           *)

Start == [at |-> "start", caller |-> "host", cycle |-> 0, drone_arg |-> FALSE]
Idle == [at |-> "idle", caller |-> "host", cycle |-> 0, drone_arg |-> FALSE]
InRun(caller, cycle, d) == [at |-> "recv", caller |-> caller, cycle |-> cycle, drone_arg |-> d]

Event(op, p, result) == [op |-> op, type |-> p.type, result |-> result]

Step(m, next_pc, slept, e) ==
    /\ client' = m.c
    /\ out' = m.out
    /\ delivered' = m.delivered
    /\ panicked' = m.panic
    /\ pc' = IF m.panic = "" THEN next_pc ELSE pc
    /\ now' = IF m.panic = "" THEN now + slept ELSE now
    /\ ev' = e

Returned(m, result, slept) ==
    [m |-> m, pc |-> IF result \in {"", "Ok"} THEN Idle ELSE Start,
     slept |-> slept, result |-> result]

send_syn(m) == send_packet(m, OutPacket(PT_Syn, 0, 0))

connect_enter_run(m, cycle, d, slept) ==
    [m |-> run_bot(m), pc |-> InRun("connect", cycle, d), slept |-> slept, result |-> ""]

(* top of `while self.state == ClientState::Connecting` *)
connect_loop_top(m, d, slept) ==
    IF m.c.state # "Connecting"
    THEN Returned(m, "Err: Connection failed", slept)
    ELSE IF (now + slept) - m.c.start_time > CONNECTION_TIMEOUT
    THEN Returned(m, "Err: Connection timed out", slept)
    ELSE IF m.c.num_retries >= MAX_RETRIES
    THEN Returned(m, "Err: Connection failed after retries", slept)
    ELSE connect_enter_run(
            [send_syn(m) EXCEPT !.c.num_retries = @ + 1], 0, d, slept)

connect_begin(m, d) ==
    connect_loop_top(
        [m EXCEPT !.c.server_addr = TRUE,
                  !.c.state = "Connecting",
                  !.c.reject_reason = "Unknown reason",
                  !.c.max_players = connect_data_max_players,
                  !.c.net_client_connected = FALSE,
                  !.c.net_client_received_wait_data = FALSE,
                  !.c.start_time = now,
                  !.c.last_send_time = now - KEEPALIVE_PERIOD,
                  !.c.num_retries = 0], d, 0)

(* connect() after one self.run() of its for loop has returned *)
connect_after_run(m, cycle, d) ==
    IF m.c.state = "Connected"
    THEN Returned([m EXCEPT !.c.reject_reason = NoReason,
                            !.c.state = "WaitingLaunch",
                            !.c.drone = d,
                            !.c.net_client_connected = TRUE], "Ok", 0)
    ELSE IF m.c.reject_reason # NoReason
    THEN Returned(disconnect(m), "Err: Connection rejected", 0)
    ELSE IF cycle + 1 < CONNECT_CYCLES
    THEN connect_enter_run(m, cycle + 1, d, CONNECT_CYCLE_SLEEP)
    ELSE connect_loop_top(m, d, CONNECT_CYCLE_SLEEP + CONNECT_RETRY_SLEEP)

Self == Machine(client, delivered)
Running == panicked = ""

Connect ==
    /\ Running /\ pc.at = "start"
    /\ nconnects < MaxConnects
    /\ LET r == connect_begin(Self, client.drone)
       IN Step(r.m, r.pc, r.slept, Event("connect", NoPacket, r.result))
    /\ nconnects' = nconnects + 1
    /\ UNCHANGED <<overflow_checks, maketic, game, nrecv, ngamedata, nticks>>

Run ==
    /\ Running /\ pc.at = "idle"
    /\ Step(run_bot(Self), InRun("host", 0, FALSE), 0, Event("run", NoPacket, ""))
    /\ UNCHANGED <<overflow_checks, maketic, game, nconnects, nrecv, ngamedata, nticks>>

Receive(p) ==
    /\ Running /\ pc.at = "recv"
    /\ nrecv < MaxRecv
    /\ p.type = PT_GameData => ngamedata < MaxGameData
    /\ Step(parse_packet(Self, p), pc, 0, Event("receive", p, ""))
    /\ nrecv' = nrecv + 1
    /\ ngamedata' = IF p.type = PT_GameData THEN ngamedata + 1 ELSE ngamedata
    /\ UNCHANGED <<overflow_checks, maketic, game, nconnects, nticks>>

RunEnd ==
    /\ Running /\ pc.at = "recv"
    /\ LET m == run_tail(Self)
           r == IF pc.caller = "host" \/ m.panic # ""
                THEN Returned(m, "", 0)
                ELSE connect_after_run(m, pc.cycle, pc.drone_arg)
       IN Step(r.m, r.pc, r.slept,
               Event(IF pc.caller = "host" THEN "run_end" ELSE "connect_end",
                     NoPacket, r.result))
    /\ UNCHANGED <<overflow_checks, maketic, game, nconnects, nrecv, ngamedata, nticks>>

Disconnect ==
    /\ Running /\ pc.at = "idle"
    /\ client.net_client_connected
    /\ Step(disconnect(Self), Idle, 0, Event("disconnect", NoPacket, ""))
    /\ UNCHANGED <<overflow_checks, maketic, game, nconnects, nrecv, ngamedata, nticks>>

(* The game loop.  ticdup, new_sync, offsetms and singletics keep the      *)
(* values Game::new() gives them: nothing assigns them afterwards.         *)

TICRATE == 35
MAX_NETGAME_STALL_TICS == 2
ticdup == 1
new_sync == TRUE
offsetms == 0
singletics == FALSE

NewGame(epoch) ==
    [gametic |-> 0, recvtic |-> 0, lasttime |-> 0, skiptics |-> 0,
     oldentertics |-> 0, local_playeringame |-> FALSE,
     enter_tic |-> 0, counts |-> 0, started |-> FALSE, epoch |-> epoch]

(* Game::get_adjusted_time at clock reading t: the wall clock's            *)
(* milliseconds cut to 32 bits, times TICRATE in u32, divided by 1000.     *)
(* The word is split in two halves of 16 bits to multiply it.              *)
Half == 65536
get_adjusted_time(g, t) ==
    LET time_ms == WrapAdd(WrapAdd(g.epoch, t), offsetms)
        lo == time_ms % Half
        hi == (time_ms \div Half) % Half
        top == hi * TICRATE + (lo * TICRATE) \div Half
        a == top % Half
        b == (lo * TICRATE) % Half
    IN [overflow |-> top >= Half,
        tics |-> a * (Half \div 1000) + (a * (Half % 1000) + b) \div 1000]

(* a clock reading inside the game loop: the multiplication panics in a    *)
(* build with overflow checks                                              *)
ReadClock(m, g, t) ==
    IF overflow_checks /\ get_adjusted_time(g, t).overflow
    THEN Panic(m, "get_adjusted_time: multiply with overflow") ELSE m

build_ticcmd == DefaultTicCmd

build_new_tic_same_seq(m, mk) ==
    [m |-> IF m.c.net_client_connected THEN send_ticcmd(m, build_ticcmd, 0) ELSE m,
     built |-> TRUE]

build_new_tic(m, mk) ==
    LET gameticdiv == mk \div ticdup
    IN IF m.c.drone THEN [m |-> m, built |-> FALSE]
       ELSE IF new_sync /\ ~m.c.net_client_connected /\ mk - gameticdiv > 2
       THEN [m |-> m, built |-> FALSE]
       ELSE IF new_sync /\ mk - gameticdiv > 8
       THEN [m |-> m, built |-> FALSE]
       ELSE IF ~new_sync /\ mk - gameticdiv >= 5
       THEN [m |-> m, built |-> FALSE]
       ELSE [m |-> IF m.c.net_client_connected
                   THEN send_ticcmd(m, build_ticcmd, mk) ELSE m,
             built |-> TRUE]

(* the state of the loop between two statements: the Game, its maketic and *)
(* the client it drives                                                    *)
Loop(g, mk, m) == [g |-> g, maketic |-> mk, m |-> m]

(* F applied to the value of e, which is computed once *)
With(e, F(_)) == CHOOSE y \in {F(x) : x \in {e}} : TRUE

(* the for loop of Game::net_update *)
RECURSIVE build_new_tics(_, _)
build_new_tics(S, newtics) ==
    IF newtics <= 0 \/ S.m.panic # "" THEN S
    ELSE With(build_new_tic(S.m, S.maketic), LAMBDA r :
            IF ~r.built THEN [S EXCEPT !.m = r.m]
            ELSE With(Loop(S.g, S.maketic + 1, r.m), LAMBDA S1 :
                    build_new_tics(S1, newtics - 1)))

(* Client::run with at most one datagram waiting on the socket *)
client_run(m, p) ==
    With(run_bot(m), LAMBDA m1 :
    With(IF m1.panic # "" \/ p = NoPacket THEN m1 ELSE parse_packet(m1, p),
         LAMBDA m2 : IF m2.panic # "" THEN m2 ELSE run_tail(m2)))

(* Game::net_update up to the call of client.run(), at clock reading t *)
net_update_begin(S, t) ==
    IF singletics THEN S
    ELSE LET m1 == ReadClock(S.m, S.g, t)
         IN IF m1.panic # "" THEN [S EXCEPT !.m = m1]
            ELSE [S EXCEPT !.g.lasttime = get_adjusted_time(S.g, t).tics]

(* Game::net_update after client.run() has returned, at clock reading t *)
net_update_end(S, t) ==
    IF singletics THEN S
    ELSE
    LET m1 == ReadClock(S.m, S.g, t)
        nowtime == get_adjusted_time(S.g, t).tics \div ticdup
        elapsed == nowtime - S.g.lasttime
        skiptics == S.g.skiptics
        newtics == IF skiptics <= elapsed THEN elapsed - skiptics ELSE 0
        g1 == [S.g EXCEPT !.lasttime = nowtime,
                          !.skiptics = IF skiptics <= elapsed THEN 0
                                       ELSE skiptics - elapsed]
    IN IF m1.panic # "" THEN [S EXCEPT !.m = m1]
       ELSE With(Loop(g1, S.maketic, S.m), LAMBDA S1 : build_new_tics(S1, newtics))

get_low_tic_behind(g, mk) == IF g.recvtic < mk THEN g.recvtic - 1 ELSE mk
get_low_tic(g, mk) == IF g.recvtic < mk THEN g.recvtic ELSE mk

players_in_game(g, c) ==
    IF c.net_client_connected THEN g.local_playeringame ELSE ~c.drone

(* Game::start_loop at clock reading t *)
start_loop(S, t) ==
    LET m1 == ReadClock(S.m, S.g, t)
    IN IF m1.panic # "" THEN [S EXCEPT !.m = m1]
       ELSE [S EXCEPT !.g.lasttime = get_adjusted_time(S.g, t).tics \div ticdup,
                      !.g.started = TRUE]

(* Game::tick from its entry up to the client.run() of its first           *)
(* net_update                                                              *)
tick_enter(S, t) ==
    LET m1 == ReadClock(S.m, S.g, t)
        enter_tic == get_adjusted_time(S.g, t).tics \div ticdup
    IN IF m1.panic # "" THEN [S EXCEPT !.m = m1]
       ELSE net_update_begin([S EXCEPT !.g.enter_tic = enter_tic], t)

(* Game::tick between the first net_update and the wait loop *)
tick_counts(S) ==
    LET lowtic == get_low_tic(S.g, S.maketic)
        availabletics == lowtic - S.g.gametic \div ticdup
        counts == IF availabletics < 1 THEN 1 ELSE availabletics
    IN [S EXCEPT !.g.oldentertics = S.g.enter_tic, !.g.counts = counts]

(* the condition of the wait loop *)
tick_waits(S) ==
    \/ ~players_in_game(S.g, S.m.c)
    \/ get_low_tic(S.g, S.maketic) < S.g.gametic \div ticdup + S.g.counts

(* the ticdata slot of a tic has ingame set for the local player once the  *)
(* tic was built; no slot is ever cleared                                  *)
ticdata_ingame(mk, tic) == tic % BACKUPTICS < mk

(* the run loop of Game::tick, with lowtic as the wait loop left it; every *)
(* net_update in it finds the socket empty and takes no time               *)
RECURSIVE run_tics(_, _, _, _)
run_tics(S, lowtic, counts, t) ==
    IF counts <= 0 \/ S.m.panic # "" THEN S
    ELSE IF ~players_in_game(S.g, S.m.c) THEN S
    ELSE IF S.g.gametic \div ticdup > lowtic
    THEN [S EXCEPT !.m = Panic(S.m, "gametic>lowtic")]
    ELSE With(net_update_begin(
                  [S EXCEPT !.g.local_playeringame =
                                ticdata_ingame(S.maketic, S.g.gametic \div ticdup),
                            !.g.gametic = S.g.gametic + ticdup], t),
         LAMBDA S2 :
         With(IF S2.m.panic # "" THEN S2
              ELSE With([S2 EXCEPT !.m = client_run(S2.m, NoPacket)],
                        LAMBDA S3 : net_update_end(S3, t)),
         LAMBDA S4 : run_tics(S4, lowtic, counts - 1, t)))

(* one turn of the wait loop after its net_update, at clock reading t:     *)
(* "panic", "stall" (tick returns), or "sleep"                             *)
tick_wait_check(S, t) ==
    LET lowtic == get_low_tic(S.g, S.maketic)
        nowtic == get_adjusted_time(S.g, t).tics \div ticdup
    IN IF lowtic < S.g.gametic \div ticdup
       THEN [S |-> [S EXCEPT !.m = Panic(S.m, "TryRunTics: lowtic < gametic")],
             result |-> "panic"]
       ELSE IF lowtic < S.g.gametic \div ticdup + S.g.counts
       THEN IF ReadClock(S.m, S.g, t).panic # ""
            THEN [S |-> [S EXCEPT !.m = ReadClock(S.m, S.g, t)], result |-> "panic"]
            ELSE IF overflow_checks /\ nowtic < S.g.enter_tic
            THEN [S |-> [S EXCEPT !.m = Panic(S.m, "tick: subtract with overflow")],
                  result |-> "panic"]
            ELSE IF nowtic < S.g.enter_tic
                    \/ nowtic - S.g.enter_tic >= MAX_NETGAME_STALL_TICS
            THEN [S |-> S, result |-> "stall"]
            ELSE [S |-> S, result |-> "sleep"]
       ELSE [S |-> S, result |-> "spin"]

BuildNewTic ==
    /\ Running /\ pc.at = "idle"
    /\ client.settings.some /\ ~client.drone
    /\ maketic < MaxMaketic
    /\ Step(build_new_tic(Self, maketic).m, Idle, 0,
            Event("build_new_tic", NoPacket, ""))
    /\ maketic' = IF build_new_tic(Self, maketic).built THEN maketic + 1 ELSE maketic
    /\ UNCHANGED <<overflow_checks, game, nconnects, nrecv, ngamedata, nticks>>

Tick ==
    /\ Running /\ pc.at = "idle"
    /\ nticks < MaxTicks
    /\ now' = now + TickMs
    /\ nticks' = nticks + 1
    /\ out' = <<>>
    /\ ev' = Event("tick", NoPacket, "")
    /\ UNCHANGED <<client, pc, overflow_checks, panicked, delivered, maketic,
                   game, nconnects, nrecv, ngamedata>>

NewClient(drone) ==
    [state |-> "Disconnected", server_addr |-> FALSE, settings |-> NoSettings,
     reject_reason |-> NoReason, drone |-> drone, recv_window_start |-> 0,
     recv_window |-> [k \in 0..(BACKUPTICS - 1) |-> DefaultServerRecv],
     send_queue |-> [k \in 0..(BACKUPTICS - 1) |-> DefaultServerSend],
     need_acknowledge |-> FALSE, gamedata_recv_time |-> now, last_latency |-> 0,
     net_waiting_for_launch |-> FALSE, net_client_connected |-> FALSE,
     net_client_received_wait_data |-> FALSE,
     net_client_wait_data |-> DefaultWaitData,
     last_send_time |-> now, start_time |-> now, num_retries |-> 0,
     last_ticcmd |-> DefaultTicCmd,
     protocol |-> "ChocolateDoom0", max_players |-> 0,
     pid_controller |-> [cumul_error |-> 0, last_error |-> 0]]

Init ==
    /\ now = 0
    /\ overflow_checks \in BOOLEAN
    /\ \E drone \in BOOLEAN : client = NewClient(drone)
    /\ pc = Start
    /\ panicked = ""
    /\ out = <<>>
    /\ delivered = <<>>
    /\ ev = Event("new", NoPacket, "")
    /\ maketic = 0
    /\ game = NewGame(0)
    /\ nconnects = 0
    /\ nrecv = 0
    /\ ngamedata = 0
    /\ nticks = 0

Next ==
    \/ Connect
    \/ Run
    \/ \E p \in SessionPackets : Receive(p)
    \/ RunEnd
    \/ Disconnect
    \/ BuildNewTic
    \/ Tick

Spec == Init /\ [][Next]_vars

----------------------------------------------------------------------------
(* One session in the game: a player that has connected, was launched and  *)
(* has accepted the server's GameStart, driven with game traffic.          *)

InGameClient ==
    LET m0 == connect_begin(Machine(NewClient(FALSE), <<>>), FALSE).m
        m1 == parse_packet(m0, [Pkt(PT_Syn) EXCEPT !.proto = TRUE])
        m2 == connect_after_run(run_tail(m1), 0, FALSE).m
        m3 == parse_packet(m2, [Pkt(PT_Launch) EXCEPT !.num_players = 2])
        m4 == parse_packet(m3, GameStartPacket(2, 0, 2, 1))
    IN m4.c

InitGame ==
    /\ now = 0
    /\ overflow_checks \in BOOLEAN
    /\ client = InGameClient
    /\ pc = InRun("host", 0, FALSE)
    /\ panicked = ""
    /\ out = <<>>
    /\ delivered = <<>>
    /\ ev = Event("receive", GameStartPacket(2, 0, 2, 1), "")
    /\ maketic = 0
    /\ game = NewGame(0)
    /\ nconnects = 1
    /\ nrecv = 0
    /\ ngamedata = 0
    /\ nticks = 0

NextGame ==
    \/ Run
    \/ \E p \in GamePackets : Receive(p)
    \/ RunEnd
    \/ Tick

SpecGame == InitGame /\ [][NextGame]_vars

----------------------------------------------------------------------------
(* expand_tic_num on its own: the window start is drawn at the edges of    *)
(* the low byte's three ranges, in the first two 256-blocks and in the     *)
(* last one below 2^31; the action applies the function to a byte.         *)

ExpandLows == {0, 1, 63, 64, 65, 128, 176, 177, 255}
ExpandHighs == {0, U8, I32_MAX - (U8 - 1)}

InitExpand ==
    /\ now = 0
    /\ overflow_checks \in BOOLEAN
    /\ \E c \in {InGameClient}, h \in ExpandHighs, l \in ExpandLows :
          client = [c EXCEPT !.recv_window_start = h + l]
    /\ pc = InRun("host", 0, FALSE)
    /\ panicked = ""
    /\ out = <<>>
    /\ delivered = <<>>
    /\ ev = Event("new", NoPacket, "")
    /\ maketic = 0
    /\ game = NewGame(0)
    /\ nconnects = 1
    /\ nrecv = 0
    /\ ngamedata = 0
    /\ nticks = 0

Expand(b) ==
    /\ ev.op = "new"
    /\ ev' = [op |-> "expand_tic_num", b |-> b,
              result |-> expand_tic_num(client.recv_window_start, b)]
    /\ UNCHANGED <<client, now, pc, overflow_checks, panicked, out, delivered,
                   maketic, game, nconnects, nrecv, ngamedata, nticks>>

NextExpand == \E b \in 0..(U8 - 1) : Expand(b)

SpecExpand == InitExpand /\ [][NextExpand]_vars

----------------------------------------------------------------------------
(* The codec and the diffing on their own: each action writes a value and  *)
(* reads the bytes back, or sends one more local tic of a session in the   *)
(* game; the values are drawn at the edges of the bytes of each width.     *)

MaxSent == 2         \* local tics sent in one session

Codec16 == {-32768, -256, -1, 0, 1, 255, 256, 257, 32767, 32768, 65535}
Codec32 == {-I32_MAX - 1, -1, 0, 1, 256, 65536, 16777216, 16843009, I32_MAX}
CodecLast ==
    {DefaultTicCmd,
     [DefaultTicCmd EXCEPT !.forwardmove = 10],
     [DefaultTicCmd EXCEPT !.angleturn = 256, !.lookfly = 1, !.buttons2 = 1]}
CodecTicCmds ==
    {[DefaultTicCmd EXCEPT !.forwardmove = f, !.angleturn = a, !.chatchar = ch,
                           !.arti = ar, !.inventory = inv, !.buttons = b] :
        f \in {0, 10}, a \in {0, 256, -512}, ch \in {0, 65}, ar \in {0, 3},
        inv \in {0, 7}, b \in {0, 1}}
SentTicCmds ==
    {[DefaultTicCmd EXCEPT !.forwardmove = f, !.angleturn = a, !.chatchar = ch,
                           !.arti = ar] :
        f \in {0, 10}, a \in {0, 256}, ch \in {0, 65}, ar \in {0, 3}}
CodecSettings ==
    {[DefaultGameSettings EXCEPT
         !.ticdup = 1, !.extratics = ex, !.skill = sk, !.new_sync = 1,
         !.timelimit = tl, !.num_players = n, !.consoleplayer = cp,
         !.player_classes = [i \in 1..NET_MAXPLAYERS |-> IF i <= n THEN 2 ELSE 0]] :
        ex \in {0, 1}, sk \in {-1, 4}, tl \in {0, 1, 20, 16843009, -1},
        n \in {0, 2, NET_MAXPLAYERS}, cp \in {-1, 1}}

InitCodec ==
    /\ now = 0
    /\ overflow_checks \in BOOLEAN
    /\ client = InGameClient
    /\ pc = Idle
    /\ panicked = ""
    /\ out = <<>>
    /\ delivered = <<>>
    /\ ev = Event("new", NoPacket, "")
    /\ maketic = 0
    /\ game = NewGame(0)
    /\ nconnects = 1
    /\ nrecv = 0
    /\ ngamedata = 0
    /\ nticks = 0

CodecOnly ==
    UNCHANGED <<client, now, pc, overflow_checks, panicked, out, delivered,
                maketic, game, nconnects, nrecv, ngamedata, nticks>>

RoundTrip16(v) ==
    /\ ev.op = "new"
    /\ ev' = [op |-> "round_trip_16", v |-> v,
              u16 |-> read_u16(write_u16(v), 1),
              i16 |-> read_i16(write_i16(v), 1)]
    /\ CodecOnly

RoundTrip32(v) ==
    /\ ev.op = "new"
    /\ ev' = [op |-> "round_trip_32", v |-> v,
              u32 |-> read_u32(write_u32(v), 1),
              i32 |-> read_i32(write_i32(v), 1)]
    /\ CodecOnly

(* a datagram that begins with the type code as write_u16 writes it, and   *)
(* the type parse_packet reads from it (-1: no type, the datagram is       *)
(* logged and dropped)                                                     *)
Dispatch(t) ==
    /\ ev.op = "new"
    /\ ev' = [op |-> "dispatch", t |-> t,
              type |-> PacketType_from_u16(read_u16(write_u16(t), 1))]
    /\ CodecOnly

DiffRoundTrip(last, c, lowres_turn) ==
    /\ ev.op = "new"
    /\ LET diff == calculate_ticcmd_diff(last, c)
           data == write_ticcmd_diff(diff, lowres_turn)
           read == read_ticcmd_diff(data, lowres_turn)
       IN ev' = [op |-> "diff_round_trip", last |-> last, c |-> c,
                 lowres_turn |-> lowres_turn, diff |-> diff.diff,
                 read |-> read.some,
                 result |-> apply_ticcmd_diff(last, read.diff)]
    /\ CodecOnly

SettingsRoundTrip(settings) ==
    /\ ev.op = "new"
    /\ ev' = [op |-> "settings_round_trip", s |-> settings,
              result |-> read_settings_data(write_settings(settings))]
    /\ CodecOnly

(* the host sends its next local tic; ev keeps the tics sent so far *)
SendTicCmd(c) ==
    /\ Running /\ ev.op \in {"new", "send_ticcmd"}
    /\ maketic < MaxSent
    /\ LET m == send_ticcmd(Self, c, maketic)
       IN /\ client' = m.c
          /\ out' = m.out
          /\ panicked' = m.panic
    /\ ev' = [op |-> "send_ticcmd",
              sent |-> (IF ev.op = "new" THEN <<>> ELSE ev.sent) \o <<c>>]
    /\ maketic' = maketic + 1
    /\ UNCHANGED <<now, pc, overflow_checks, delivered, game, nconnects, nrecv,
                   ngamedata, nticks>>

NextCodec ==
    \/ \E v \in Codec16 : RoundTrip16(v)
    \/ \E v \in Codec32 : RoundTrip32(v)
    \/ \E t \in 0..PT_NatHolePunch : Dispatch(t)
    \/ \E last \in CodecLast, c \in CodecTicCmds, lowres_turn \in BOOLEAN :
          DiffRoundTrip(last, c, lowres_turn)
    \/ \E settings \in CodecSettings : SettingsRoundTrip(settings)
    \/ \E c \in SentTicCmds : SendTicCmd(c)

SpecCodec == InitCodec /\ [][NextCodec]_vars

----------------------------------------------------------------------------
(* PIDController::update on its own: a controller as PIDController::new    *)
(* leaves it, fed the same error on every update.                          *)

MaxPidError == 1000    \* errors -MaxPidError..MaxPidError, ms
MaxPidUpdates == 12    \* updates per behaviour
(* and an error of about twenty minutes *)
PidErrors == (-MaxPidError..MaxPidError) \cup {1191609, -1191609}

InitPid ==
    /\ now = 0
    /\ overflow_checks \in BOOLEAN
    /\ client = InGameClient
    /\ pc = Idle
    /\ panicked = ""
    /\ out = <<>>
    /\ delivered = <<>>
    /\ \E error \in PidErrors : ev = [op |-> "new_pid", error |-> error]
    /\ maketic = 0
    /\ game = NewGame(0)
    /\ nconnects = 1
    /\ nrecv = 0
    /\ ngamedata = 0
    /\ nticks = 0

PidUpdate ==
    /\ Running
    /\ nticks < MaxPidUpdates
    /\ Step(PIDController_update(Self, ev.error), pc, 0,
            [op |-> "pid_update", error |-> ev.error,
             offset_ms |-> PIDController_offset(client.pid_controller, ev.error)])
    /\ nticks' = nticks + 1
    /\ UNCHANGED <<overflow_checks, maketic, game, nconnects, nrecv, ngamedata>>

NextPid == PidUpdate

SpecPid == InitPid /\ [][NextPid]_vars

----------------------------------------------------------------------------
(* The receive loop with the source address of each datagram: the socket   *)
(* is bound to 0.0.0.0:0 and never connected, so recv_from hands over      *)
(* datagrams from any sender.                                              *)

MaxAddrRecv == 2     \* datagrams received per behaviour
Addrs == {"server", "stranger"}

(* the body of the while loop of Client::receive_packets: addr goes to the *)
(* debug log only                                                          *)
receive_packet(m, addr, p) == parse_packet(m, p)

(* inside connect()'s first run(), and inside a run() in the game *)
AddrSessions ==
    {[c |-> connect_begin(Machine(NewClient(FALSE), <<>>), FALSE).m.c,
      pc |-> InRun("connect", 0, FALSE)],
     [c |-> InGameClient, pc |-> InRun("host", 0, FALSE)]}

InitAddr ==
    /\ now = 0
    /\ overflow_checks \in BOOLEAN
    /\ \E s \in AddrSessions : client = s.c /\ pc = s.pc
    /\ panicked = ""
    /\ out = <<>>
    /\ delivered = <<>>
    /\ ev = Event("new", NoPacket, "")
    /\ maketic = 0
    /\ game = NewGame(0)
    /\ nconnects = 1
    /\ nrecv = 0
    /\ ngamedata = 0
    /\ nticks = 0

ReceiveFrom(addr, p) ==
    /\ Running /\ pc.at = "recv"
    /\ nrecv < MaxAddrRecv
    /\ Step(receive_packet(Self, addr, p), pc, 0,
            [op |-> "receive_from", addr |-> addr, type |-> p.type])
    /\ nrecv' = nrecv + 1
    /\ UNCHANGED <<overflow_checks, maketic, game, nconnects, ngamedata, nticks>>

NextAddr == \E addr \in Addrs, p \in SessionPackets : ReceiveFrom(addr, p)

SpecAddr == InitAddr /\ [][NextAddr]_vars

----------------------------------------------------------------------------
(* Resend requests from the server: a session that sends its local tics   *)
(* and is asked for some of them again.  A player's tics are numbered      *)
(* maketic by the game loop, a drone's come from run_bot.                  *)

MaxResendSent == 3   \* local tics sent per behaviour
MaxResendRecv == 2   \* resend requests received per behaviour
MaxResendTics == 3   \* num_tics 0..MaxResendTics of a request
ResendStarts == {0, 1, 2, -1}

(* a drone is never in the game: validate_game_settings asks a drone for   *)
(* consoleplayer < 0 and every client for consoleplayer as usize below     *)
(* num_players, so a drone stays in WaitingStart, where run_bot is idle    *)
WaitingDrone ==
    LET m0 == connect_begin(Machine(NewClient(FALSE), <<>>), TRUE).m
        m1 == parse_packet(m0, [Pkt(PT_Syn) EXCEPT !.proto = TRUE])
        m2 == connect_after_run(run_tail(m1), 0, TRUE).m
        m3 == parse_packet(m2, [Pkt(PT_Launch) EXCEPT !.num_players = 2])
    IN m3.c

InitResend ==
    /\ now = 0
    /\ overflow_checks \in BOOLEAN
    /\ client \in {InGameClient, WaitingDrone}
    /\ pc = Idle
    /\ panicked = ""
    /\ out = <<>>
    /\ delivered = <<>>
    /\ ev = Event("new", NoPacket, "")
    /\ maketic = 0
    /\ game = NewGame(0)
    /\ nconnects = 1
    /\ nrecv = 0
    /\ ngamedata = 0
    /\ nticks = 0

SendLocalTic ==
    /\ Running
    /\ maketic < MaxResendSent
    /\ Step(IF client.drone THEN run_bot(Self)
            ELSE send_ticcmd(Self, generate_bot_ticcmd, maketic),
            pc, 0, Event("send_ticcmd", NoPacket, ""))
    /\ maketic' = maketic + 1
    /\ UNCHANGED <<overflow_checks, game, nconnects, nrecv, ngamedata, nticks>>

ResendRequest(start, n) ==
    /\ Running
    /\ nrecv < MaxResendRecv
    /\ Step(parse_packet(Self, ResendPacket(start, n)), pc, 0,
            [op |-> "resend_request", start |-> start, n |-> n])
    /\ nrecv' = nrecv + 1
    /\ UNCHANGED <<overflow_checks, maketic, game, nconnects, ngamedata, nticks>>

NextResend ==
    \/ SendLocalTic
    \/ \E start \in ResendStarts, n \in 0..MaxResendTics : ResendRequest(start, n)

SpecResend == InitResend /\ [][NextResend]_vars

----------------------------------------------------------------------------
(* The game loop over a player's session in the game: start_loop(), then   *)
(* calls of Game::tick one after the other.  A step ends where tick()      *)
(* calls client.run() or where it returns, so the client always runs at    *)
(* the clock reading of its own step.  The time a step takes is the wait   *)
(* loop's sleep and, before client.run() is entered, a delay the scheduler *)
(* may add.  main() enters tick() again only while the client is           *)
(* connected.                                                              *)

SleepMs == 20        \* what the wait loop's sleep of 1 ms lasts, ms
RunMs == 30          \* a short delay before client.run(), ms
MaxSlowRuns == 2     \* delays before client.run() in one behaviour
MaxLoopRecv == 1     \* datagrams received inside the game loop
MaxLoopMs == 100     \* no tick() is entered after this clock reading, ms

RunDelays == {0, RunMs, TickMs}
(* the wall clock's milliseconds at now = 0, cut to 32 bits: far from and  *)
(* just below the largest value that TICRATE multiplies without overflow   *)
LoopEpochs == {1000, 122713300}
LoopPackets ==
    {GameStartPacket(2, 0, 2, 1), Pkt(PT_Disconnect), ResendPacket(0, 2),
     GameDataPacket(0, 1, 1, 1)}

InTick(phase) == [at |-> "net_update", caller |-> phase, cycle |-> 0, drone_arg |-> FALSE]

(* Game::tick after a net_update of phase "tick_enter" or "tick_wait" has  *)
(* returned, up to the client.run() of the next one or to its return       *)
tick_step(S, phase, t) ==
    IF S.m.panic # ""
    THEN [S |-> S, continues |-> FALSE, slept |-> 0, result |-> "panic"]
    ELSE
    With(IF phase = "tick_enter"
         THEN [S |-> tick_counts(S), result |-> "enter"]
         ELSE tick_wait_check(S, t),
    LAMBDA chk :
    LET d == IF chk.result = "sleep" THEN SleepMs ELSE 0
    IN IF chk.result \in {"panic", "stall"}
       THEN [S |-> chk.S, continues |-> FALSE, slept |-> 0, result |-> chk.result]
       ELSE IF tick_waits(chk.S)
       THEN [S |-> net_update_begin(chk.S, t + d), continues |-> TRUE,
             slept |-> d, result |-> chk.result]
       ELSE [S |-> run_tics(chk.S, get_low_tic(chk.S.g, chk.S.maketic),
                            chk.S.g.counts, t + d),
             continues |-> FALSE, slept |-> d, result |-> "run"])

LoopStep(S, next_pc, slept, e) ==
    /\ Step(S.m, next_pc, slept, e)
    /\ game' = S.g
    /\ maketic' = S.maketic

InitLoop ==
    /\ now = 0
    /\ overflow_checks \in BOOLEAN
    /\ client = InGameClient
    /\ pc = Idle
    /\ panicked = ""
    /\ out = <<>>
    /\ delivered = <<>>
    /\ ev = Event("new", NoPacket, "")
    /\ maketic = 0
    /\ \E epoch \in LoopEpochs : game = NewGame(epoch)
    /\ nconnects = 1
    /\ nrecv = 0
    /\ ngamedata = 0
    /\ nticks = 0

GameStartLoop ==
    /\ Running /\ pc.at = "idle" /\ ~game.started
    /\ \E S \in {start_loop(Loop(game, maketic, Self), now)} :
          LoopStep(S, Idle, 0, Event("start_loop", NoPacket, ""))
    /\ UNCHANGED <<overflow_checks, nconnects, nrecv, ngamedata, nticks>>

GameTick(r) ==
    /\ Running /\ pc.at = "idle" /\ game.started
    /\ client.net_client_connected
    /\ now < MaxLoopMs
    /\ r > 0 => nticks < MaxSlowRuns
    /\ \E S \in {tick_enter(Loop(game, maketic, Self), now)} :
          LoopStep(S, InTick("tick_enter"), r, Event("tick", NoPacket, ""))
    /\ nticks' = IF r > 0 THEN nticks + 1 ELSE nticks
    /\ UNCHANGED <<overflow_checks, nconnects, nrecv, ngamedata>>

GameNetUpdate(p, r) ==
    /\ Running /\ pc.at = "net_update"
    /\ p # NoPacket => nrecv < MaxLoopRecv
    /\ r > 0 => nticks < MaxSlowRuns
    /\ \E S0 \in {Loop(game, maketic, client_run(Self, p))} :
       \E S1 \in {IF S0.m.panic # "" THEN S0 ELSE net_update_end(S0, now)} :
       \E res \in {tick_step(S1, pc.caller, now)} :
          /\ r > 0 => res.continues /\ res.S.m.panic = ""
          /\ LoopStep(res.S,
                      IF res.continues THEN InTick("tick_wait") ELSE Idle,
                      IF res.continues THEN res.slept + r ELSE res.slept,
                      Event("net_update", p, res.result))
    /\ nrecv' = IF p # NoPacket THEN nrecv + 1 ELSE nrecv
    /\ nticks' = IF r > 0 THEN nticks + 1 ELSE nticks
    /\ UNCHANGED <<overflow_checks, nconnects, ngamedata>>

NextLoop ==
    \/ GameStartLoop
    \/ \E r \in RunDelays : GameTick(r)
    \/ \E p \in LoopPackets \cup {NoPacket}, r \in RunDelays : GameNetUpdate(p, r)

SpecLoop == InitLoop /\ [][NextLoop]_vars

----------------------------------------------------------------------------
(* Properties *)

W0 == client.recv_window_start
Abs(x) == IF x < 0 THEN -x ELSE x
Received(t) == ev.op = "receive" /\ ev.type = t

(* C1: within one session the tics handed to the simulation are tics       *)
(* 0, 1, 2, ... in order, none skipped and none twice: the i-th tic handed *)
(* over is handed over as tic i-1 and carries the commands the server      *)
(* built for tic i-1, whatever the order, loss and repetition of the       *)
(* GameData datagrams and however service cycles interleave with them.     *)
C1_DeliveredInOrder ==
    \A i \in 1..Len(delivered) :
        /\ delivered[i].tic = i - 1
        /\ delivered[i].cmd.cmds.tic = i - 1

(* tics 0..3 handed over after three GameData datagrams, the last of which *)
(* filled a hole                                                           *)
C1_Witness ==
    /\ Len(delivered) >= 4
    /\ ngamedata = MaxGameData
    /\ ev.op = "run_end"

(* C2: with tics 0 and 1 received and tic 2 missing, the arrival of the    *)
(* GameData that carries tics 3 and 4 makes the client send a              *)
(* GameDataResend for exactly [2,2] (start 2, one tic) and carry on.       *)
Tic2Missing ==
    /\ \/ W0 = 2
       \/ W0 = 0 /\ client.recv_window[0].active /\ client.recv_window[1].active
    /\ ~client.recv_window[2 - W0].active
C2_GapIsRequested ==
    [][(Tic2Missing /\ Receive(GameDataPacket(3, 2, 1, 2)))
        => (panicked' = "" /\ \E i \in 1..Len(out') :
                                out'[i] = OutPacket(PT_GameDataResend, 2, 1))]_vars

(* C3: a GameData whose tics all fall on slots that are already active     *)
(* changes neither the receive window nor the clock-sync state.            *)
OnlyDuplicates(p) ==
    /\ p.type = PT_GameData /\ p.ok /\ p.num_tics = Len(p.tics) /\ p.num_tics > 0
    /\ \A i \in 0..(p.num_tics - 1) :
          LET index == expand_tic_num(W0, p.b) + i - W0
          IN index \in 0..(BACKUPTICS - 1) /\ client.recv_window[index].active
C3_DuplicateIsDropped ==
    [][\A p \in GamePackets :
          (OnlyDuplicates(p) /\ Receive(p))
          => /\ client'.recv_window = client.recv_window
             /\ client'.pid_controller = client.pid_controller
             /\ client'.last_latency = client.last_latency]_vars

(* C4: over GameData deliveries and window advances recv_window_start      *)
(* never decreases and equals the number of tics handed to the simulation. *)
C4_WindowStartCountsDrains ==
    [][/\ client'.recv_window_start >= client.recv_window_start
       /\ client'.recv_window_start = Len(delivered')]_vars

(* the window has advanced past three tics, over more than one datagram    *)
C4_Witness ==
    /\ client.recv_window_start >= 3
    /\ client.recv_window_start = Len(delivered)
    /\ ngamedata >= 2

(* C5: handling an inbound datagram never panics.                          *)
C5_NoPanicOnInput == ~(panicked # "" /\ ev.op = "receive")

(* C6 as stated: expand_tic_num(W, b), a u32, is congruent to b modulo 256 *)
(* and its distance from W is at most 192.  A u32 of 2^31 or more is kept  *)
(* as the negative i32 with the same bits, r + 2^32 being its value.       *)
UDistance192(r, W) ==
    IF r >= 0 THEN Abs(r - W) <= 192
    ELSE /\ r - I32_MIN <= 192
         /\ I32_MAX - W <= 192
         /\ (r - I32_MIN) + (I32_MAX - W) + 1 <= 192
C6_ExpandWithin192 ==
    ev.op = "expand_tic_num"
    => /\ ev.result % U8 = ev.b
       /\ UDistance192(ev.result, W0)

(* C6 amended: expand_tic_num(W, b) is congruent to b modulo 256 and the   *)
(* wrapping 32-bit difference expand_tic_num(W, b) - W, read as a signed   *)
(* number, is at most 192 in absolute value.                               *)
C6_ExpandWithin192Wrapping ==
    ev.op = "expand_tic_num"
    => /\ ev.result % U8 = ev.b
       /\ Abs(WrapSub(ev.result, W0)) <= 192

(* a window start below 64 and a byte above 176: the result is below zero  *)
(* in wrapping arithmetic, 2^32 - k as a u32                               *)
C6_Witness ==
    /\ ev.op = "expand_tic_num"
    /\ W0 < 64 /\ ev.b > 176
    /\ ev.result < 0

(* C7: a Syn received in a state other than Connecting leaves the session  *)
(* state as it is.                                                         *)
C7_SynOnlyWhenConnecting ==
    [][(client.state # "Connecting" /\ Received(PT_Syn)')
        => client'.state = client.state]_vars

(* C8: a GameStart received in a state other than WaitingStart changes     *)
(* neither the session state nor the settings, recv_window_start or the    *)
(* two windows.                                                            *)
GameUnchanged ==
    /\ client'.state = client.state
    /\ client'.settings = client.settings
    /\ client'.recv_window_start = client.recv_window_start
    /\ client'.recv_window = client.recv_window
    /\ client'.send_queue = client.send_queue
C8_GameStartOnlyWhenWaitingStart ==
    [][(client.state # "WaitingStart" /\ Received(PT_GameStart)')
        => GameUnchanged]_vars

(* C9: a GameStart with num_players > NET_MAXPLAYERS, or consoleplayer     *)
(* outside [0, num_players), or against the drone/consoleplayer sign rule  *)
(* is rejected: the client carries on with the session state, settings,    *)
(* recv_window_start and windows it had.                                   *)
InvalidSettings(p) ==
    \/ p.num_players > NET_MAXPLAYERS
    \/ p.consoleplayer < 0 /\ ~client.drone
    \/ p.consoleplayer >= 0 /\ client.drone
    \/ ~(p.consoleplayer >= 0 /\ p.consoleplayer < p.num_players)
C9_InvalidGameStartRejected ==
    [][\A p \in GameStartPackets :
          (p.nitems = p.num_players /\ InvalidSettings(p) /\ Receive(p))
          => (panicked' = "" /\ GameUnchanged)]_vars

(* C10: a drone in WaitingStart that receives a GameStart with two players *)
(* and consoleplayer -1 enters InGame and get_settings() has the settings. *)
C10_DroneStartsGame ==
    [][(client.drone /\ client.state = "WaitingStart"
        /\ Receive(GameStartPacket(2, -1, 2, 0)))
        => (client'.state = "InGame" /\ get_settings(client').some)]_vars

(* C11: a WaitingData with num_players > max_players, ready_players >      *)
(* num_players, max_players > NET_MAXPLAYERS, or against the sign rule (a  *)
(* drone with consoleplayer >= 0, a player with consoleplayer < 0) leaves  *)
(* the stored lobby snapshot and net_client_received_wait_data as they     *)
(* were.                                                                   *)
InvalidWaitData(p) ==
    \/ p.num_players > p.max_players
    \/ p.ready_players > p.num_players
    \/ p.max_players > NET_MAXPLAYERS
    \/ client.drone /\ p.consoleplayer >= 0
    \/ ~client.drone /\ p.consoleplayer < 0
C11_InvalidWaitDataRejected ==
    [][\A p \in WaitingDataPackets :
          (InvalidWaitData(p) /\ Receive(p))
          => /\ client'.net_client_wait_data = client.net_client_wait_data
             /\ client'.net_client_received_wait_data
                    = client.net_client_received_wait_data]_vars

(* C12: a Rejected with reason r received while Connecting makes the       *)
(* session Disconnected with reason r in that step; the connect() whose    *)
(* service cycle ends in that state returns an error and leaves state and  *)
(* reason as they are; a Rejected received in any other state changes      *)
(* nothing and sends nothing.                                              *)
IsErr(result) == result \notin {"", "Ok"}
C13_ConnectWaitsForReply ==
    [][(/\ RunEnd /\ pc.caller = "connect"
        /\ client.state = "Connecting"
        /\ client.reject_reason = "Unknown reason"
        /\ now - client.start_time <= CONNECTION_TIMEOUT
        /\ (pc.cycle + 1 < CONNECT_CYCLES \/ client.num_retries < MAX_RETRIES))
        => (pc'.at = "recv" /\ pc'.caller = "connect")]_vars

(* C14: when connect() has returned an error the session is Disconnected   *)
(* and a reason is recorded.                                               *)
C14_ConnectErrorDisconnects ==
    (ev.op \in {"connect", "connect_end"} /\ IsErr(ev.result))
    => (client.state = "Disconnected" /\ client.reject_reason # NoReason)

(* C15: disconnect() on a connected client leaves the session in           *)
(* Disconnecting with exactly five Disconnect datagrams sent, and the      *)
(* session goes from Disconnecting to Disconnected only on a DisconnectAck *)
(* or when 5 s have passed since disconnect().                             *)
C15_DisconnectWaitsForAck ==
    [][/\ (client.net_client_connected /\ ev'.op = "disconnect")
            => /\ client'.state = "Disconnecting"
               /\ Len(out') = 5
               /\ \A i \in 1..Len(out') : out'[i] = OutPacket(PT_Disconnect, 0, 0)
       /\ (client.state = "Disconnecting" /\ client'.state = "Disconnected")
            => \/ Received(PT_DisconnectAck)'
               \/ now - client.start_time > DISCONNECT_TIMEOUT]_vars

(* C16: the datagram sent in reply to an accepted Syn or GameStart begins  *)
(* with the type code of Ack, the one sent in reply to a Disconnect with   *)
(* that of DisconnectAck; none begins with the received datagram's bytes.  *)
FirstCode(o) == IF o.onto = -1 THEN o.type ELSE o.onto
RepliesBeginWith(code) ==
    /\ out' # <<>>
    /\ \A i \in 1..Len(out') : FirstCode(out'[i]) = code /\ out'[i].onto = -1
C16_ReplyBeginsWithItsType ==
    [][/\ (Received(PT_Syn)' /\ client'.state = "Connected"
              /\ client.state = "Connecting")
            => RepliesBeginWith(PT_Ack)
       /\ (Received(PT_GameStart)' /\ client'.state = "InGame"
              /\ client.state = "WaitingStart")
            => RepliesBeginWith(PT_Ack)
       /\ Received(PT_Disconnect)' => RepliesBeginWith(PT_DisconnectAck)]_vars

(* C17: a datagram whose type code is none of 0..16 changes nothing of the *)
(* client (session state, settings, windows, need_acknowledge and          *)
(* reject_reason included), hands no tic over and sends nothing.           *)
UnknownType(t) == t \notin 0..PT_NatHolePunch
C17_UnknownTypeDropped ==
    [][(ev'.op = "receive" /\ UnknownType(ev'.type))
        => /\ client' = client
           /\ out' = <<>>
           /\ delivered' = delivered
           /\ panicked' = ""]_vars

(* an unknown type code has been received by a client in the game that     *)
(* keeps its settings                                                      *)
C17_Witness ==
    /\ ev.op = "receive" /\ UnknownType(ev.type)
    /\ client.state = "InGame"
    /\ client.settings.some

(* C18: a GameData that is too short to decode (its header, or one of the  *)
(* FullTicCmds it announces) is dropped whole: the receive window,         *)
(* need_acknowledge and gamedata_recv_time stay as they were and nothing   *)
(* is sent.                                                                *)
Truncated(p) == p.type = PT_GameData /\ (~p.ok \/ Len(p.tics) < p.num_tics)
C18_ShortGameDataDropped ==
    [][\A p \in GamePackets :
          (Truncated(p) /\ Receive(p))
          => /\ client'.recv_window = client.recv_window
             /\ client'.need_acknowledge = client.need_acknowledge
             /\ client'.gamedata_recv_time = client.gamedata_recv_time
             /\ out' = <<>>]_vars

(* C19: the check_resends pass of a service cycle sends, for the receive   *)
(* window with start W as the pass finds it, exactly one GameDataResend    *)
(* per maximal run [i..j] of slots that are inactive and were last         *)
(* requested more than 300 ms ago, for the tics W+i .. W+j, and no other:  *)
(* no request covers a slot that is active or was requested more recently. *)
ResendsOf(o) == SelectSeq(o, LAMBDA q : q.type = PT_GameDataResend)
C19_OneResendPerRun ==
    [][(ev'.op = "run_end" /\ panicked' = "")
        => LET c == handle_state(Self).c
               w == c.recv_window
               W == c.recv_window_start
               need == {k \in 0..(BACKUPTICS - 1) :
                           ~w[k].active /\ now - w[k].resend_time > RESEND_TIMEOUT}
               starts == {i \in need : i - 1 \notin need}
               EndOf(i) == CHOOSE j \in i..(BACKUPTICS - 1) :
                              /\ j + 1 \notin need
                              /\ \A k \in i..j : k \in need
               expected == {OutPacket(PT_GameDataResend, W + i, (EndOf(i) - i + 1) % U8) :
                               i \in starts}
               sent == ResendsOf(out')
           IN /\ {sent[k] : k \in 1..Len(sent)} = expected
              /\ Len(sent) = Cardinality(starts)]_vars

(* one pass has sent two requests: a run in front of a received tic and   *)
(* the run behind it                                                       *)
C19_Witness ==
    /\ ev.op = "run_end"
    /\ Len(ResendsOf(out)) >= 2
    /\ \E k \in 1..(BACKUPTICS - 1) : client.recv_window[k].active

(* C20: a GameDataAck goes out only at the end of a service cycle, when    *)
(* need_acknowledge holds and more than 200 ms have passed since the last  *)
(* GameData, or as the keepalive in Connected or InGame after 1 s without  *)
(* sending; the step that receives a GameData sends no ack.                *)
AckIn(o) == \E i \in 1..Len(o) : o[i].type = PT_GameDataAck
C20_AckCadence ==
    [][/\ Received(PT_GameData)' => ~AckIn(out')
       /\ AckIn(out')
            => /\ ev'.op \in {"run_end", "connect_end"}
               /\ \/ /\ client.need_acknowledge
                     /\ now - client.gamedata_recv_time > ACK_TIMEOUT
                  \/ /\ client.state \in {"Connected", "InGame"}
                     /\ now - client.last_send_time > KEEPALIVE_PERIOD]_vars

(* C21: a keepalive GameDataAck goes out at the end of a service cycle     *)
(* only when the client has sent nothing for 1 s, and then exactly one:    *)
(* a datagram sent in the step before, at the same instant, postpones it.  *)
AcksIn(o) == SelectSeq(o, LAMBDA q : q.type = PT_GameDataAck)
C21_KeepaliveAfterSilence ==
    [][(ev'.op = "run_end" /\ now' = now /\ AckIn(out'))
        => /\ out = <<>>
           /\ Len(AcksIn(out')) = 1]_vars

(* C22: a TicCmd c diffed against last, written with full-resolution       *)
(* turns, read back and applied to last is c again; for last =             *)
(* {forwardmove 10} and c = {forwardmove 10, angleturn 256, chatchar 65}   *)
(* the mask is TURN|CHATCHAR.                                              *)
C22_DiffRoundTrip ==
    (ev.op = "diff_round_trip" /\ ~ev.lowres_turn)
        => /\ ev.read
           /\ ev.result = ev.c
           /\ (/\ ev.last = [DefaultTicCmd EXCEPT !.forwardmove = 10]
               /\ ev.c = [DefaultTicCmd EXCEPT !.forwardmove = 10,
                                               !.angleturn = 256,
                                               !.chatchar = 65])
                  => ev.diff = NET_TICDIFF_TURN + NET_TICDIFF_CHATCHAR

(* C23: the diffs stored by the send_ticcmd calls of a session, applied in *)
(* order to an all-zero TicCmd, give back every tic that was sent.         *)
RECURSIVE Undiffed(_, _, _, _)
Undiffed(send_queue, base, i, n) ==
    IF i >= n THEN <<>>
    ELSE LET result == apply_ticcmd_diff(base, send_queue[i % BACKUPTICS].cmd)
         IN <<result>> \o Undiffed(send_queue, result, i + 1, n)
C23_DiffsAgainstPreviousTic ==
    ev.op = "send_ticcmd"
        => Undiffed(client.send_queue, DefaultTicCmd, 0, Len(ev.sent)) = ev.sent

(* C24: GameSettings with every field in its wire range and at most        *)
(* NET_MAXPLAYERS players are read back as they were written.              *)
C24_SettingsRoundTrip ==
    ev.op = "settings_round_trip"
        => /\ ev.result.status = "Some"
           /\ ev.result.settings = ev.s

(* C25: a 16-bit or 32-bit value is read back as it was written, and a     *)
(* datagram whose type code t was written with write_u16 is dispatched as  *)
(* type t.                                                                 *)
C25_OneByteOrder ==
    /\ (ev.op = "round_trip_16" /\ ev.v \in 0..65535) => ev.u16 = ev.v
    /\ (ev.op = "round_trip_16" /\ ev.v \in (-32768)..32767) => ev.i16 = ev.v
    /\ ev.op = "round_trip_32" => (ev.u32 = ev.v /\ ev.i32 = ev.v)
    /\ ev.op = "dispatch" => ev.type = ev.t

(* C26: every turn of tick()'s wait loop ends without a panic, and goes on *)
(* to another turn only after sleeping and only while fewer than           *)
(* MAX_NETGAME_STALL_TICS tics of adjusted time have passed since tick()   *)
(* was entered: tick() returns once the stall bound is reached.            *)
InWaitLoop == pc.at = "net_update" /\ pc.caller = "tick_wait"
C26_StallBound ==
    [][(InWaitLoop /\ ev'.op = "net_update")
        => /\ panicked' = ""
           /\ pc'.at = "net_update"
                => /\ now' > now
                   /\ get_adjusted_time(game, now).tics \div ticdup - game.enter_tic
                          < MAX_NETGAME_STALL_TICS]_vars

(* C27: gametic/ticdup never exceeds the lowest available tic, and neither *)
(* of tick()'s two panics about it happens.                                *)
C27_ConsumerNotAhead ==
    /\ game.gametic \div ticdup <= get_low_tic(game, maketic)
    /\ panicked \notin {"TryRunTics: lowtic < gametic", "gametic>lowtic"}
C27_Witness ==
    /\ ev.op = "net_update" /\ ev.result \in {"sleep", "stall"}
    /\ maketic > 0

(* C28: the producer is never more than 9 tics ahead of the consumer.      *)
C28_ProducerCap == maketic - game.gametic \div ticdup <= 9

(* C29: every tic of every GameData datagram sent comes from a send-queue  *)
(* slot that is active and holds that tic.                                 *)
TicsOf(q) == q.a..(q.a + q.n - 1)
C29_NoInactiveSlotSent ==
    \A i \in 1..Len(out) :
        out[i].type = PT_GameData
            => \A t \in TicsOf(out[i]) :
                  /\ client.send_queue[t % BACKUPTICS].active
                  /\ client.send_queue[t % BACKUPTICS].seq = t

(* C30: the sequence numbers a step writes into the send queue are the     *)
(* ones from maketic on, and maketic never decreases: successive           *)
(* send_ticcmd calls use 0, 1, 2, ..., none of them twice.                 *)
WrittenSlots == {k \in 0..(BACKUPTICS - 1) :
                    /\ client'.send_queue[k].active
                    /\ client'.send_queue[k] # client.send_queue[k]}
C31_LowTicWhenDisconnected ==
    game.started
        => get_low_tic(game, maketic) =
              IF client.net_client_connected
              THEN (IF game.recvtic < maketic THEN game.recvtic ELSE maketic)
              ELSE maketic

(* C32: the offset the PID controller computes when a GameData arrives is  *)
(* the offset get_adjusted_time adds to the clock from then on.            *)
C32_OffsetFeedsClock ==
    [][(/\ ev'.op = "net_update" /\ ev'.type = PT_GameData
        /\ client'.pid_controller # client.pid_controller)
        => offsetms = PIDController_offset(client.pid_controller,
                                           client'.pid_controller.last_error)]_vars

(* C33: handling one GameData datagram updates the PID controller and      *)
(* last_latency at most once, whatever the number of tics it carries.      *)
C33_OneClockSyncPerPacket ==
    [][Received(PT_GameData)'
        => \/ /\ client'.pid_controller = client.pid_controller
              /\ client'.last_latency = client.last_latency
           \/ client'.pid_controller.cumul_error =
                 WrapAdd(client.pid_controller.cumul_error,
                         client'.pid_controller.last_error)]_vars

(* C34: a GameData with base sequence s above the window start brings      *)
(* exactly one resend request, for the inactive slots from just above the  *)
(* highest active slot below s (or from the window start) up to s - 1; no  *)
(* request when slot s - 1 is active or s is not above the window start.   *)
HandledAs(m) == client' = m.c /\ out' = m.out /\ panicked' = m.panic
GapBelow(p) ==
    LET W == client.recv_window_start
        rel == WrapSub(expand_tic_num(W, p.b), W)
        act == {j \in 0..(rel - 1) : j < BACKUPTICS /\ client.recv_window[j].active}
        low == IF act = {} THEN 0 ELSE 1 + CHOOSE j \in act : \A k \in act : k <= j
    IN [start |-> WrapAdd(W, low), n |-> IF rel <= 0 THEN 0 ELSE rel - low]
C34_GapDetection ==
    [][Received(PT_GameData)'
        => \A p \in GamePackets :
              (p.ok /\ HandledAs(parse_packet(Self, p)))
                 => IF GapBelow(p).n = 0 THEN ResendsOf(out') = <<>>
                    ELSE /\ panicked' = ""
                         /\ Len(ResendsOf(out')) = 1
                         /\ ResendsOf(out')[1].a = GapBelow(p).start
                         /\ ResendsOf(out')[1].n = GapBelow(p).n]_vars

(* C35: fed the same error on every update from a fresh controller, the    *)
(* offset returned is at most |Kp*e| + |Ki*cumul_error| in magnitude, with *)
(* Kp = 0.1 and Ki = 0.01.                                                 *)
PidBound ==
    1000 * Abs(ev.offset_ms)
        <= 100 * Abs(ev.error) + 10 * Abs(client.pid_controller.cumul_error)
C36_ConnectedAgreesWithState ==
    client.net_client_connected
        <=> client.state \in {"WaitingLaunch", "WaitingStart", "InGame"}

(* C37: when a GameDataAck goes out, slot 0 of the receive window is       *)
(* inactive, so the byte it carries names a tic the client does not hold.  *)
C37_AckNamesMissingTic ==
    \A i \in 1..Len(out) :
        out[i].type = PT_GameDataAck
            => /\ out[i].a = client.recv_window_start % U8
               /\ ~client.recv_window[0].active

(* C38: a datagram from another address than the server's changes neither  *)
(* the session state, the settings, the windows nor reject_reason, and     *)
(* brings no outbound datagram.                                            *)
C38_OnlyServerChangesSession ==
    [][(ev'.op = "receive_from" /\ ev'.addr # "server")
        => /\ client'.state = client.state
           /\ client'.settings = client.settings
           /\ client'.recv_window_start = client.recv_window_start
           /\ client'.recv_window = client.recv_window
           /\ client'.send_queue = client.send_queue
           /\ client'.reject_reason = client.reject_reason
           /\ out' = <<>>]_vars


(* C39: answering GameDataResend(start, n), a client that is not a drone  *)
(* sends again only tics of start..start+n-1 that its send queue holds     *)
(* active under their own seq; it sends nothing when n = 0 or when it      *)
(* holds none of them, a drone sends nothing, and the loops that trim the  *)
(* range come to an end.                                                   *)
Requested(start, n) == {WrapAdd(start, k) : k \in 0..(n - 1)}
HeldAgain(c, start, n) == Requested(start, n) \cap SentSeqs(c.send_queue)
C39_ResendAnswer ==
    [][ev'.op = "resend_request" =>
          /\ panicked' = ""
          /\ \A i \in 1..Len(out') :
                /\ out'[i].type = PT_GameData
                /\ TicsOf(out'[i]) \subseteq HeldAgain(client, ev'.start, ev'.n)
          /\ (ev'.n = 0 \/ client.drone
              \/ HeldAgain(client, ev'.start, ev'.n) = {}) => out' = <<>>]_vars


(* C40: GameDataResend packets are sent only while the session state is    *)
(* InGame; no cycle of run() in another state sends one.                   *)
C40_ResendOnlyInGame ==
    ResendsOf(out) # <<>> => client.state = "InGame"

====
